---------------------------- MODULE Spec2Model ----------------------------
(***************************************************************************)
(* Model of the video analytics pipeline of fiap-tech-challenge-04:        *)
(* FaceDetector._remove_duplicates, ActivityDetector, AnomalyDetector,     *)
(* StatisticsCollector and the frame loop of VideoAnalyzer.process_video.  *)
(*                                                                         *)
(* Units.  Normalised pose coordinates are integers in units of 0.005, so  *)
(* 0.02 = 4, 0.1 = 20, 0.15 = 30; every coordinate drawn is even, which    *)
(* makes the mean of two of them, (a + b) / 2, an exact integer.           *)
(* Timestamps are integers in tenths of a second (2.0 s = 20, 5.0 s = 50); *)
(* the frame rates drawn divide 10, so current_frame / fps is exact.       *)
(* Movement speeds are non-negative integers in an arbitrary unit.         *)
(* Text literals are written in ASCII (accents dropped, "*" for a bullet). *)
(***************************************************************************)
EXTENDS Integers, Sequences, FiniteSets, TLC

VARIABLES
    faces,            \* _remove_duplicates: the argument list of boxes
    unique_faces,     \* _remove_duplicates: the returned list
    kept,             \* _remove_duplicates: input positions appended to unique_faces
    pose_history,     \* ActivityDetector.pose_history
    movement_speeds,  \* AnomalyDetector.movement_speeds
    emotion_history,  \* AnomalyDetector.emotion_history (dict, key 'general')
    stats_collector,  \* StatisticsCollector: one record field per attribute
    fps,              \* VideoProcessor.fps
    current_frame,    \* VideoProcessor.current_frame
    frame,            \* locals of the last iteration of the frame loop
    ret,              \* the last direct method call: its name, arguments, result
    calls,            \* number of direct method calls made so far
    pc,               \* position of the running procedure
    files,            \* the report and the export at REPORT_CONFIG's paths
    analyzers         \* the VideoAnalyzer instances of a run with several

vars == <<faces, unique_faces, kept, pose_history, movement_speeds,
          emotion_history, stats_collector, fps, current_frame, frame, ret,
          calls, pc, files, analyzers>>

(***************************************************************************)
(* Bounds of the model                                                     *)
(***************************************************************************)
MaxFaces == 3

MaxCalls == 2

MaxSamples == 10

MaxObs == 5

MaxFrames == 2

MaxFacesPerFrame == 1

MaxStatOps == 4

(***************************************************************************)
(* Small helpers                                                           *)
(***************************************************************************)
Abs(n) == IF n < 0 THEN -n ELSE n

Max(a, b) == IF a > b THEN a ELSE b

Min(a, b) == IF a < b THEN a ELSE b

RECURSIVE SeqSum(_)
SeqSum(s) == IF s = <<>> THEN 0 ELSE Head(s) + SeqSum(Tail(s))

SeqsUpTo(S, n) == UNION {[1..k -> S] : k \in 0..n}

EmptyDict == [k \in {} |-> <<>>]

NoRet == [op |-> "none", timestamp |-> 0, value |-> FALSE]

(***************************************************************************)
(* FaceDetector._remove_duplicates                                         *)
(* A box is <<x, y, w, h>>.  iou > 0.3 is decided on the exact quotient:   *)
(* intersection / union > 3/10  <=>  10 * intersection > 3 * union.        *)
(***************************************************************************)
Boxes == {<<x, y, w, h>> : x \in {0, 2, 4}, y \in {0, 1}, w \in {0, 4}, h \in {2}}

iou_exceeds(intersection, union, num, den) ==
    IF union > 0 THEN den * intersection > num * union ELSE FALSE

is_duplicate_half(face, existing) ==
    LET x_left   == Max(face[1], existing[1])
        y_top    == Max(face[2], existing[2])
        x_right  == Min(face[1] + face[3], existing[1] + existing[3])
        y_bottom == Min(face[2] + face[4], existing[2] + existing[4])
        intersection == (x_right - x_left) * (y_bottom - y_top)
        area1    == face[3] * face[4]
        area2    == existing[3] * existing[4]
        union    == area1 + area2 - intersection
    IN  /\ x_right > x_left
        /\ y_bottom > y_top
        /\ iou_exceeds(intersection, union, 5, 10)

is_duplicate(face, existing) ==
    LET x_left   == Max(face[1], existing[1])
        y_top    == Max(face[2], existing[2])
        x_right  == Min(face[1] + face[3], existing[1] + existing[3])
        y_bottom == Min(face[2] + face[4], existing[2] + existing[4])
        intersection == (x_right - x_left) * (y_bottom - y_top)
        area1    == face[3] * face[4]
        area2    == existing[3] * existing[4]
        union    == area1 + area2 - intersection
    IN  /\ x_right > x_left
        /\ y_bottom > y_top
        /\ iou_exceeds(intersection, union, 3, 10)

\* The outer loop comparing a candidate with every candidate before it, accepted
\* or not.
RECURSIVE dedup_loop_any_earlier(_, _, _)
dedup_loop_any_earlier(fs, i, acc) ==
    IF i > Len(fs) THEN acc
    ELSE LET dup == \E k \in 1..(i - 1) : is_duplicate(fs[i], fs[k])
         IN  dedup_loop_any_earlier(fs, i + 1, IF dup THEN acc ELSE Append(acc, i))

\* The outer loop comparing a candidate with the candidate just before it only.
RECURSIVE dedup_loop_previous_only(_, _, _)
dedup_loop_previous_only(fs, i, acc) ==
    IF i > Len(fs) THEN acc
    ELSE LET dup == i > 1 /\ is_duplicate(fs[i], fs[i - 1])
         IN  dedup_loop_previous_only(fs, i + 1, IF dup THEN acc ELSE Append(acc, i))

\* The outer loop from position i on; acc holds the accepted positions in order.
RECURSIVE dedup_loop(_, _, _)
dedup_loop(fs, i, acc) ==
    IF i > Len(fs) THEN acc
    ELSE LET dup == \E k \in 1..Len(acc) : is_duplicate(fs[i], fs[acc[k]])
         IN  dedup_loop(fs, i + 1, IF dup THEN acc ELSE Append(acc, i))

kept_positions(fs) == IF fs = <<>> THEN <<>> ELSE dedup_loop(fs, 1, <<>>)

remove_duplicates(fs) ==
    LET acc == kept_positions(fs) IN [k \in 1..Len(acc) |-> fs[acc[k]]]

(***************************************************************************)
(* ActivityDetector.classify_activity                                      *)
(* landmarks is a record of the joints the rules read, each [x, y]; the    *)
(* absent pose (pose_landmarks = None) is NoPose.                          *)
(***************************************************************************)
history_size == 10

NoPose == [detected |-> FALSE]

P(x, y) == [x |-> x, y |-> y]

MkPose(rs, le, re, lw, rw, hip, knee, hx) ==
    [detected       |-> TRUE,
     left_shoulder  |-> P(80, 100),       right_shoulder |-> P(120, rs),
     left_elbow     |-> P(70, le),        right_elbow    |-> P(130, re),
     left_wrist     |-> P(60, lw),        right_wrist    |-> P(140, rw),
     left_hip       |-> P(hx, hip),       right_hip      |-> P(hx + 20, hip + 4),
     left_knee      |-> P(90, knee),      right_knee     |-> P(110, knee + 4)]

Poses ==
    {MkPose(rs, le, re, lw, rw, hip, knee, hx) :
        rs \in {100, 108}, le \in {90, 120}, re \in {90, 120},
        lw \in {80, 102}, rw \in {80, 130},
        hip \in {60, 110, 130}, knee \in {100, 160}, hx \in {80, 84, 90}}

shoulder_y(l) == (l.left_shoulder.y + l.right_shoulder.y) \div 2

hip_y(l) == (l.left_hip.y + l.right_hip.y) \div 2

knee_y(l) == (l.left_knee.y + l.right_knee.y) \div 2

hip_x(l) == (l.left_hip.x + l.right_hip.x) \div 2

arms_up_both(l) ==
    /\ l.left_elbow.y < shoulder_y(l) /\ l.right_elbow.y < shoulder_y(l)
    /\ l.left_wrist.y < shoulder_y(l) /\ l.right_wrist.y < shoulder_y(l)

arms_up(l) ==
    \/ (l.left_elbow.y < shoulder_y(l) /\ l.right_elbow.y < shoulder_y(l))
    \/ (l.left_wrist.y < shoulder_y(l) /\ l.right_wrist.y < shoulder_y(l))

left_arm_up(l) ==
    l.left_wrist.y < l.left_shoulder.y /\ l.left_elbow.y < l.left_shoulder.y

right_arm_up(l) ==
    l.right_wrist.y < l.right_shoulder.y /\ l.right_elbow.y < l.right_shoulder.y

waving(l) ==
    \/ (left_arm_up(l) /\ ~right_arm_up(l))
    \/ (right_arm_up(l) /\ ~left_arm_up(l))

crouching(l) == knee_y(l) > hip_y(l) + 20 /\ hip_y(l) > shoulder_y(l) + 20

sitting(l) == Abs(hip_y(l) - knee_y(l)) < 30

leaning(l) == Abs(shoulder_y(l) - hip_y(l)) < 30

walking_coarse(l, history) ==
    /\ Len(history) > 0
    /\ Abs(hip_x(l) - history[Len(history)]) > 40

walking_ge(l, history) ==
    /\ Len(history) > 0
    /\ Abs(hip_x(l) - history[Len(history)]) >= 4

walking(l, history) ==
    /\ Len(history) > 0
    /\ Abs(hip_x(l) - history[Len(history)]) > 4

\* The history cut back to history_size by dropping the newest entry (pop()).
update_history_drop_newest(l, history) ==
    LET h == Append(history, hip_x(l))
    IN  IF Len(h) > history_size THEN SubSeq(h, 1, history_size) ELSE h

\* lines 144-147: append, then drop the oldest entry beyond history_size
update_history(l, history) ==
    LET h == Append(history, hip_x(l))
    IN  IF Len(h) > history_size THEN Tail(h) ELSE h

\* classify_activity with the rule of leaning tried before that of sitting.
classify_activity_leaning_first(l, history) ==
    IF ~l.detected THEN [activity |-> "unknown", pose_history |-> history]
    ELSE IF arms_up(l) THEN [activity |-> "arms_up", pose_history |-> history]
    ELSE IF waving(l) THEN [activity |-> "waving", pose_history |-> history]
    ELSE IF crouching(l) THEN [activity |-> "crouching", pose_history |-> history]
    ELSE IF leaning(l) THEN [activity |-> "leaning", pose_history |-> history]
    ELSE IF sitting(l) THEN [activity |-> "sitting", pose_history |-> history]
    ELSE IF walking(l, history) THEN [activity |-> "walking", pose_history |-> history]
    ELSE [activity |-> "standing", pose_history |-> update_history(l, history)]

\* classify_activity recording the hip position of a walking frame too.
classify_activity_records_walking(l, history) ==
    IF ~l.detected THEN [activity |-> "unknown", pose_history |-> history]
    ELSE IF arms_up(l) THEN [activity |-> "arms_up", pose_history |-> history]
    ELSE IF waving(l) THEN [activity |-> "waving", pose_history |-> history]
    ELSE IF crouching(l) THEN [activity |-> "crouching", pose_history |-> history]
    ELSE IF sitting(l) THEN [activity |-> "sitting", pose_history |-> history]
    ELSE IF leaning(l) THEN [activity |-> "leaning", pose_history |-> history]
    ELSE IF walking(l, history)
         THEN [activity |-> "walking", pose_history |-> update_history(l, history)]
    ELSE [activity |-> "standing", pose_history |-> update_history(l, history)]

\* lines 108-150: the call's result and the history it leaves.
classify_activity(l, history) ==
    IF ~l.detected THEN [activity |-> "unknown", pose_history |-> history]
    ELSE IF arms_up(l) THEN [activity |-> "arms_up", pose_history |-> history]
    ELSE IF waving(l) THEN [activity |-> "waving", pose_history |-> history]
    ELSE IF crouching(l) THEN [activity |-> "crouching", pose_history |-> history]
    ELSE IF sitting(l) THEN [activity |-> "sitting", pose_history |-> history]
    ELSE IF leaning(l) THEN [activity |-> "leaning", pose_history |-> history]
    ELSE IF walking(l, history) THEN [activity |-> "walking", pose_history |-> history]
    ELSE [activity |-> "standing", pose_history |-> update_history(l, history)]

(***************************************************************************)
(* AnomalyDetector                                                         *)
(***************************************************************************)
sudden_movement_threshold == 3

pose_confidence_threshold == 5

emotion_change_time_threshold == 20

duration_threshold == 50

min_speed_samples == 10

speed_window == 30

emotion_history_size == 10

extreme_emotions == {"angry", "fear", "disgust"}

LastN(s, n) == IF Len(s) <= n THEN s ELSE SubSeq(s, Len(s) - n + 1, Len(s))

too_few_samples_5(speeds) == Len(speeds) < 5

\* line 50
too_few_samples(speeds) == Len(speeds) < min_speed_samples

exceeds_mean_divided(movement_speed, window) ==
    /\ SeqSum(window) > 0
    /\ movement_speed * Len(window) * sudden_movement_threshold > SeqSum(window)

\* lines 54-57: avg_speed = sum / len, so
\*   avg_speed > 0                       <=>  sum > 0
\*   movement_speed > avg_speed * thr    <=>  movement_speed * len > sum * thr
exceeds_mean(movement_speed, window) ==
    /\ SeqSum(window) > 0
    /\ movement_speed * Len(window) > SeqSum(window) * sudden_movement_threshold

\* detect_sudden_movement with the mean taken over every sample collected.
detect_sudden_movement_all_samples(movement_speed, speeds) ==
    LET appended == Append(speeds, movement_speed)
    IN  [value |-> IF too_few_samples(appended) THEN FALSE
                   ELSE exceeds_mean(movement_speed, appended),
         movement_speeds |-> appended]

\* lines 47-59
detect_sudden_movement(movement_speed, speeds) ==
    LET appended == Append(speeds, movement_speed)
    IN  [value |-> IF too_few_samples(appended) THEN FALSE
                   ELSE exceeds_mean(movement_speed, LastN(appended, speed_window)),
         movement_speeds |-> appended]

\* detect_abnormal_pose flagging a confidence above the threshold.
detect_abnormal_pose_above(landmarks, min_confidence) ==
    IF ~landmarks.detected THEN FALSE
    ELSE min_confidence > pose_confidence_threshold

\* lines 73-84
detect_abnormal_pose(landmarks, min_confidence) ==
    IF ~landmarks.detected THEN FALSE
    ELSE min_confidence < pose_confidence_threshold

general_history(eh) == IF "general" \in DOMAIN eh THEN eh.general ELSE <<>>

\* detect_rapid_emotion_change flagging a change after the threshold exactly.
detect_rapid_emotion_change_inclusive(timestamp, emotion, eh) ==
    LET appended == Append(general_history(eh), <<timestamp, emotion>>)
        history  == IF Len(appended) > emotion_history_size
                    THEN Tail(appended) ELSE appended
        prev     == history[Len(history) - 1]
    IN  [value |-> IF Len(history) < 2 THEN FALSE
                   ELSE prev[2] # emotion
                        /\ timestamp - prev[1] <= emotion_change_time_threshold,
         emotion_history |-> [general |-> history]]

\* detect_rapid_emotion_change keeping every observation (no pop(0)).
detect_rapid_emotion_change_unbounded(timestamp, emotion, eh) ==
    LET history == Append(general_history(eh), <<timestamp, emotion>>)
        prev    == history[Len(history) - 1]
    IN  [value |-> IF Len(history) < 2 THEN FALSE
                   ELSE prev[2] # emotion
                        /\ timestamp - prev[1] < emotion_change_time_threshold,
         emotion_history |-> [general |-> history]]

\* lines 97-120
detect_rapid_emotion_change(timestamp, emotion, eh) ==
    LET appended == Append(general_history(eh), <<timestamp, emotion>>)
        history  == IF Len(appended) > emotion_history_size
                    THEN Tail(appended) ELSE appended
        prev     == history[Len(history) - 1]
    IN  [value |-> IF Len(history) < 2 THEN FALSE
                   ELSE prev[2] # emotion
                        /\ timestamp - prev[1] < emotion_change_time_threshold,
         emotion_history |-> [general |-> history]]

\* The backward scan of lines 149-153 without its break: entries of another
\* label are skipped.
RECURSIVE scan_skipping(_, _, _, _, _)
scan_skipping(history, i, emotion, current_timestamp, duration) ==
    IF i < 1 THEN duration
    ELSE scan_skipping(history, i - 1, emotion, current_timestamp,
                       IF history[i][2] # emotion THEN duration
                       ELSE current_timestamp - history[i][1])

sustained_duration_skipping(history, emotion, current_timestamp) ==
    scan_skipping(history, Len(history), emotion, current_timestamp, 0)

\* lines 148-153: the backward scan from position i with the duration so far
RECURSIVE scan_run(_, _, _, _, _)
scan_run(history, i, emotion, current_timestamp, duration) ==
    IF i < 1 THEN duration
    ELSE IF history[i][2] # emotion THEN duration
    ELSE scan_run(history, i - 1, emotion, current_timestamp,
                  current_timestamp - history[i][1])

sustained_duration(history, emotion, current_timestamp) ==
    scan_run(history, Len(history), emotion, current_timestamp, 0)

duration_exceeded(duration) == duration > duration_threshold

\* line 155
duration_reached(duration) == duration >= duration_threshold

detect_extreme_emotion_sustained(emotion, current_timestamp, eh) ==
    IF emotion \notin extreme_emotions THEN FALSE
    ELSE IF "general" \notin DOMAIN eh THEN FALSE
    ELSE duration_reached(sustained_duration(eh.general, emotion, current_timestamp))

Event(frame_number, timestamp, type, description) ==
    [frame |-> frame_number, timestamp |-> timestamp, type |-> type,
     description |-> description]

\* lines 199-217: the loop over emotions_data from position i on; st carries the
\* anomalies appended so far and the emotion history.
RECURSIVE emotion_loop(_, _, _, _, _)
emotion_loop(frame_number, timestamp, emotions_data, i, st) ==
    IF i > Len(emotions_data) THEN st
    ELSE LET emotion == emotions_data[i][2].emotion
             rapid   == detect_rapid_emotion_change(timestamp, emotion, st.emotion_history)
             a1      == IF rapid.value
                        THEN Append(st.anomalies,
                                    Event(frame_number, timestamp, "rapid_emotion_change",
                                          <<"Mudanca emocional rapida para", emotion>>))
                        ELSE st.anomalies
             a2      == IF detect_extreme_emotion_sustained(emotion, timestamp,
                                                            rapid.emotion_history)
                        THEN Append(a1, Event(frame_number, timestamp,
                                              "sustained_extreme_emotion",
                                              <<"Emocao extrema sustentada", emotion>>))
                        ELSE a1
         IN  emotion_loop(frame_number, timestamp, emotions_data, i + 1,
                          [anomalies |-> a2, emotion_history |-> rapid.emotion_history])

\* analyze_frame_for_anomalies with the pose check reported ahead of the
\* movement check.
analyze_frame_for_anomalies_pose_first(frame_number, timestamp, movement_speed, pose_landmarks, pose_confidence, emotions_data, speeds, eh) ==
    LET sudden == detect_sudden_movement(movement_speed, speeds)
        a1 == IF pose_landmarks.detected
                 /\ detect_abnormal_pose(pose_landmarks, pose_confidence)
              THEN <<Event(frame_number, timestamp, "abnormal_pose",
                           <<"Pose anomala: confianca baixa", pose_confidence>>)>>
              ELSE <<>>
        a2 == IF sudden.value
              THEN Append(a1, Event(frame_number, timestamp, "sudden_movement",
                                    <<"Movimento brusco detectado", movement_speed>>))
              ELSE a1
        st == emotion_loop(frame_number, timestamp, emotions_data, 1,
                           [anomalies |-> a2, emotion_history |-> eh])
    IN  [anomalies |-> st.anomalies,
         movement_speeds |-> sudden.movement_speeds,
         emotion_history |-> st.emotion_history]

\* lines 176-219
analyze_frame_for_anomalies(frame_number, timestamp, movement_speed, pose_landmarks, pose_confidence, emotions_data, speeds, eh) ==
    LET sudden == detect_sudden_movement(movement_speed, speeds)
        a1 == IF sudden.value
              THEN <<Event(frame_number, timestamp, "sudden_movement",
                           <<"Movimento brusco detectado", movement_speed>>)>>
              ELSE <<>>
        a2 == IF pose_landmarks.detected
                 /\ detect_abnormal_pose(pose_landmarks, pose_confidence)
              THEN Append(a1, Event(frame_number, timestamp, "abnormal_pose",
                                    <<"Pose anomala: confianca baixa", pose_confidence>>))
              ELSE a1
        st == emotion_loop(frame_number, timestamp, emotions_data, 1,
                           [anomalies |-> a2, emotion_history |-> eh])
    IN  [anomalies |-> st.anomalies,
         movement_speeds |-> sudden.movement_speeds,
         emotion_history |-> st.emotion_history]

(***************************************************************************)
(* ActivityDetector.detect_and_classify and calculate_movement_speed       *)
(***************************************************************************)
\* lines 223-229: results.pose_landmarks is the perception output `pose`
detect_and_classify(pose, history) ==
    IF pose.detected THEN classify_activity(pose, history)
    ELSE [activity |-> "unknown", pose_history |-> history]

\* isinstance(prev_center, tuple): a number is not a tuple.  pose_history holds
\* numbers only (line 145 is its one append), and TLC rejects any other value here.
is_tuple(v) == v \notin Int

ISqrt(n) == CHOOSE r \in 0..n : r * r <= n /\ (r + 1) * (r + 1) > n

\* calculate_movement_speed measuring the distance to a recorded hip x.
calculate_movement_speed_scalar(landmarks, history) ==
    IF ~landmarks.detected \/ Len(history) = 0 THEN 0
    ELSE Abs(hip_x(landmarks) - history[Len(history)])

\* lines 241-259
calculate_movement_speed(landmarks, history) ==
    IF ~landmarks.detected \/ Len(history) = 0 THEN 0
    ELSE LET prev_center == history[Len(history)]
         IN  IF is_tuple(prev_center)
             THEN ISqrt((hip_x(landmarks) - prev_center[1]) * (hip_x(landmarks) - prev_center[1])
                        + (hip_y(landmarks) - prev_center[2]) * (hip_y(landmarks) - prev_center[2]))
             ELSE 0

(***************************************************************************)
(* StatisticsCollector.  A Counter is the sequence of its <<key, count>>   *)
(* pairs in insertion order; a dict is a function on its keys.             *)
(***************************************************************************)
NewStatisticsCollector ==
    [total_frames |-> 0, frames_with_faces |-> 0, frames_with_poses |-> 0,
     total_faces_count |-> 0, face_detections_per_frame |-> <<>>,
     emotions_counter |-> <<>>, emotions_timeline |-> <<>>,
     activities_by_person |-> EmptyDict, activities_counter |-> <<>>,
     anomalies |-> <<>>, anomalies_by_type |-> <<>>, timeline |-> <<>>]

counter_has(c, key) == \E i \in 1..Len(c) : c[i][1] = key

counter_get(c, key) ==
    IF counter_has(c, key) THEN (CHOOSE e \in {c[i] : i \in 1..Len(c)} : e[1] = key)[2]
    ELSE 0

counter_inc(c, key) ==
    IF counter_has(c, key)
    THEN [i \in 1..Len(c) |-> IF c[i][1] = key THEN <<key, c[i][2] + 1>> ELSE c[i]]
    ELSE Append(c, <<key, 1>>)

add_frame(st) == [st EXCEPT !.total_frames = @ + 1]

\* add_face_detection with the append inside the `if num_faces > 0`.
add_face_detection_nonzero_only(st, frame_number, num_faces) ==
    [st EXCEPT !.frames_with_faces = IF num_faces > 0 THEN @ + 1 ELSE @,
               !.total_faces_count = IF num_faces > 0 THEN @ + num_faces ELSE @,
               !.face_detections_per_frame =
                   IF num_faces > 0 THEN Append(@, num_faces) ELSE @]

\* lines 50-53
add_face_detection(st, frame_number, num_faces) ==
    [st EXCEPT !.frames_with_faces = IF num_faces > 0 THEN @ + 1 ELSE @,
               !.total_faces_count = IF num_faces > 0 THEN @ + num_faces ELSE @,
               !.face_detections_per_frame = Append(@, num_faces)]

add_emotion(st, timestamp, emotion) ==
    [st EXCEPT !.emotions_counter = counter_inc(@, emotion),
               !.emotions_timeline = Append(@, <<timestamp, emotion>>)]

\* add_activity keeping only the latest entry of a subject
\* (activities_by_person[person_id] = [...]) instead of appending.
add_activity_latest_only(st, timestamp, person_id, activity) ==
    [st EXCEPT !.activities_by_person =
                   IF person_id \in DOMAIN @
                   THEN [@ EXCEPT ![person_id] = <<(<<timestamp, activity, 0>>)>>]
                   ELSE @ @@ (person_id :> <<(<<timestamp, activity, 0>>)>>),
               !.activities_counter = counter_inc(@, activity)]

\* lines 75-76
add_activity(st, timestamp, person_id, activity) ==
    [st EXCEPT !.activities_by_person =
                   IF person_id \in DOMAIN @
                   THEN [@ EXCEPT ![person_id] = Append(@, <<timestamp, activity, 0>>)]
                   ELSE @ @@ (person_id :> <<(<<timestamp, activity, 0>>)>>),
               !.activities_counter = counter_inc(@, activity)]

add_pose_detection(st) == [st EXCEPT !.frames_with_poses = @ + 1]

\* The event put at the head of the log (insert(0, ...)) instead of its end.
add_anomaly_at_head(st, timestamp, frame_number, anomaly_type, description) ==
    [st EXCEPT !.anomalies = <<Event(frame_number, timestamp, anomaly_type,
                                     description)>> \o @,
               !.anomalies_by_type = counter_inc(@, anomaly_type)]

add_anomaly(st, timestamp, frame_number, anomaly_type, description) ==
    [st EXCEPT !.anomalies = Append(@, Event(frame_number, timestamp, anomaly_type,
                                             description)),
               !.anomalies_by_type = counter_inc(@, anomaly_type)]

\* The pair most_common() lists last: the last one of minimal count.
most_common_last(c) ==
    LET i == CHOOSE k \in 1..Len(c) :
                 /\ \A j \in 1..Len(c) : c[j][2] >= c[k][2]
                 /\ \A j \in (k + 1)..Len(c) : c[j][2] > c[k][2]
    IN  c[i]

\* Counter.most_common(1): the first pair, in insertion order, of maximal count
most_common_1(c) ==
    LET i == CHOOSE k \in 1..Len(c) :
                 /\ \A j \in 1..Len(c) : c[j][2] <= c[k][2]
                 /\ \A j \in 1..(k - 1) : c[j][2] < c[k][2]
    IN  c[i]

get_dominant_activity(st) ==
    IF st.activities_counter # <<>> THEN most_common_1(st.activities_counter)[1]
    ELSE "unknown"

(***************************************************************************)
(* EmotionAnalyzer.analyze_faces_emotions.  tracked_faces is the sequence  *)
(* of face keys in dict order; outcomes[i] is what the emotion model does  *)
(* for face i: a label (the dominant emotion of its result), "no_result"   *)
(* (analyze_emotion returned the empty list, which is also what it returns *)
(* when the emotion model raises) or "error" (the loop body raised, or the *)
(* result carried no scores: either way the entry is the neutral one).     *)
(* A dict of per-face info is a sequence of <<key, info>>.                 *)
(***************************************************************************)
Emotions == {"angry", "disgust", "fear", "happy", "sad", "surprise", "neutral"}

RECURSIVE faces_emotions_loop(_, _, _, _)
faces_emotions_loop(tracked_faces, outcomes, i, emotions_data) ==
    IF i > Len(tracked_faces) THEN emotions_data
    ELSE faces_emotions_loop(tracked_faces, outcomes, i + 1,
            IF outcomes[i] = "no_result" THEN emotions_data
            ELSE IF outcomes[i] = "error"
            THEN Append(emotions_data,
                        <<tracked_faces[i],
                          [emotion |-> "neutral", confidence |-> 0, scores |-> {}]>>)
            ELSE Append(emotions_data,
                        <<tracked_faces[i],
                          [emotion |-> outcomes[i], confidence |-> 90,
                           scores |-> Emotions]>>))

analyze_faces_emotions(tracked_faces, outcomes) ==
    faces_emotions_loop(tracked_faces, outcomes, 1, <<>>)

(***************************************************************************)
(* VideoAnalyzer.process_video: one iteration of the frame loop            *)
(***************************************************************************)
NoFrame ==
    [frame_number |-> 0, timestamp |-> 0, tracked_faces |-> <<>>, outcomes |-> <<>>,
     emotions_data |-> <<>>, pose |-> NoPose, activity |-> "unknown",
     movement_speed |-> 0, pose_confidence |-> 0, anomalies |-> <<>>]

\* VideoProcessor.get_timestamp, in tenths of a second
get_timestamp(cur, rate) == IF rate > 0 THEN (cur * 10) \div rate ELSE 0

\* lines 171-174
RECURSIVE record_emotions(_, _, _, _)
record_emotions(st, timestamp, emotions_data, i) ==
    IF i > Len(emotions_data) THEN st
    ELSE record_emotions(add_emotion(st, timestamp, emotions_data[i][2].emotion),
                         timestamp, emotions_data, i + 1)

record_pose_always(st, pose, timestamp, activity) ==
    add_activity(add_pose_detection(st), timestamp, "person_1", activity)

\* lines 184-188
record_pose(st, pose, timestamp, activity) ==
    IF pose.detected
    THEN add_activity(add_pose_detection(st), timestamp, "person_1", activity)
    ELSE st

\* lines 214-218
RECURSIVE record_anomalies(_, _, _)
record_anomalies(st, anomalies, i) ==
    IF i > Len(anomalies) THEN st
    ELSE record_anomalies(add_anomaly(st, anomalies[i].timestamp, anomalies[i].frame,
                                      anomalies[i].type, anomalies[i].description),
                          anomalies, i + 1)

\* lines 145-218: the state the iteration leaves, given the perception outputs
process_frame(st, history, speeds, eh, frame_number, timestamp, tracked_faces, outcomes, pose) ==
    LET st1 == add_frame(st)
        num_faces == Len(tracked_faces)
        st2 == add_face_detection(st1, frame_number, num_faces)
        emotions_data == IF tracked_faces # <<>>
                         THEN analyze_faces_emotions(tracked_faces, outcomes)
                         ELSE <<>>
        st3 == record_emotions(st2, timestamp, emotions_data, 1)
        dc  == detect_and_classify(pose, history)
        st4 == record_pose(st3, pose, timestamp, dc.activity)
        movement_speed == IF pose.detected
                          THEN calculate_movement_speed(pose, dc.pose_history)
                          ELSE 0
        pose_confidence == IF pose.detected THEN 10 ELSE 0
        an  == analyze_frame_for_anomalies(frame_number, timestamp, movement_speed,
                                           pose, pose_confidence, emotions_data,
                                           speeds, eh)
        st5 == record_anomalies(st4, an.anomalies, 1)
    IN  [stats_collector |-> st5,
         pose_history    |-> dc.pose_history,
         movement_speeds |-> an.movement_speeds,
         emotion_history |-> an.emotion_history,
         frame |-> [frame_number |-> frame_number, timestamp |-> timestamp,
                    tracked_faces |-> tracked_faces, outcomes |-> outcomes,
                    emotions_data |-> emotions_data,
                    pose |-> pose, activity |-> dc.activity,
                    movement_speed |-> movement_speed,
                    pose_confidence |-> pose_confidence,
                    anomalies |-> an.anomalies]]

(***************************************************************************)
(* Text.  A Python str is the sequence of its characters.                  *)
(***************************************************************************)
DigitChar(d) == <<"0", "1", "2", "3", "4", "5", "6", "7", "8", "9">>[d + 1]

\* str(n) / format 'd' of a non-negative int
RECURSIVE Digits(_)
Digits(n) == IF n < 10 THEN <<DigitChar(n)>> ELSE Digits(n \div 10) \o <<DigitChar(n % 10)>>

\* format '02d': padded with zeros to at least two characters
Pad2(n) == IF n < 10 THEN <<"0">> \o Digits(n) ELSE Digits(n)

format_timestamp_rounded(seconds) ==
    LET hours   == seconds \div 36000
        minutes == (seconds % 36000) \div 600
        secs    == ((seconds % 600) + 5) \div 10
    IN  Pad2(hours) \o <<":">> \o Pad2(minutes) \o <<":">> \o Pad2(secs)

\* VideoProcessor.format_timestamp; seconds is in tenths of a second, so
\* seconds // 3600 is t \div 36000, (seconds % 3600) // 60 is (t % 36000) \div 600
\* and int(seconds % 60) is (t % 600) \div 10.
format_timestamp(seconds) ==
    LET hours   == seconds \div 36000
        minutes == (seconds % 36000) \div 600
        secs    == (seconds % 600) \div 10
    IN  Pad2(hours) \o <<":">> \o Pad2(minutes) \o <<":">> \o Pad2(secs)

\* round(a / b) to the nearest integer, ties to even: what format '.2f' does to
\* the hundredths
RoundHalfEven(a, b) ==
    LET q == a \div b
        r == a % b
    IN  IF 2 * r < b THEN q
        ELSE IF 2 * r > b THEN q + 1
        ELSE IF q % 2 = 0 THEN q ELSE q + 1

\* f"{(num / den * 100):.2f}%"; the division raises when den = 0
Percent(num, den) ==
    IF den = 0 THEN <<"ZeroDivisionError">>
    ELSE LET h == RoundHalfEven(num * 10000, den)
         IN  Digits(h \div 100) \o <<".">> \o Pad2(h % 100) \o <<"%">>

(***************************************************************************)
(* StatisticsCollector.get_summary                                         *)
(***************************************************************************)
add_timeline_event(st, timestamp, event) ==
    [st EXCEPT !.timeline = Append(@, <<timestamp, event>>)]

\* dict(self.emotions_counter): a copy, in insertion order
get_overall_emotion_distribution(st) == st.emotions_counter

RECURSIVE counter_total(_)
counter_total(c) == IF c = <<>> THEN 0 ELSE Head(c)[2] + counter_total(Tail(c))

\* One step of an ascending sort that is reversed afterwards: among equal
\* counts the item placed last comes first.
insert_before_equal(sorted, item) ==
    LET n == Cardinality({i \in 1..Len(sorted) : sorted[i][2] > item[2]})
    IN  SubSeq(sorted, 1, n) \o <<item>> \o SubSeq(sorted, n + 1, Len(sorted))

\* One step of sorted(items, key=count, reverse=True): the item goes behind
\* every item already placed whose count is not smaller (the sort is stable).
insert_by_count(sorted, item) ==
    LET n == Cardinality({i \in 1..Len(sorted) : sorted[i][2] >= item[2]})
    IN  SubSeq(sorted, 1, n) \o <<item>> \o SubSeq(sorted, n + 1, Len(sorted))

RECURSIVE sort_loop(_, _, _)
sort_loop(items, i, sorted) ==
    IF i > Len(items) THEN sorted
    ELSE sort_loop(items, i + 1, insert_by_count(sorted, items[i]))

sorted_by_count(items) == sort_loop(items, 1, <<>>)

FirstN(s, n) == IF Len(s) <= n THEN s ELSE SubSeq(s, 1, n)

\* max(items, key=count): the first item of maximal count
max_by_count(items) ==
    LET i == CHOOSE k \in 1..Len(items) :
                 /\ \A j \in 1..Len(items) : items[j][2] <= items[k][2]
                 /\ \A j \in 1..(k - 1) : items[j][2] < items[k][2]
    IN  items[i]

detection_rate_unguarded(st) == Percent(st.frames_with_faces, st.total_frames)

\* line 154
detection_rate(st) ==
    IF st.total_frames > 0 THEN Percent(st.frames_with_faces, st.total_frames)
    ELSE <<"0", "%">>

\* The collector after a get_summary that sorted the emotion counter in place.
collector_after_summary_sorted(st) ==
    [st EXCEPT !.emotions_counter = sorted_by_count(@)]

\* The collector after get_summary: lines 138-170 assign no attribute, and they
\* sort and convert copies (dict(...), sorted(...)), never the counters.
collector_after_summary(st) == st

get_summary(st) ==
    LET emotion_dist    == get_overall_emotion_distribution(st)
        total_emotions  == counter_total(emotion_dist)
        sorted_emotions == FirstN(sorted_by_count(emotion_dist), 5)
        top_5_emotions  ==
            IF emotion_dist # <<>>
            THEN [i \in 1..Len(sorted_emotions) |->
                     <<sorted_emotions[i][1],
                       Percent(sorted_emotions[i][2], total_emotions)>>]
            ELSE <<>>
    IN  [general |-> [total_frames      |-> st.total_frames,
                      frames_with_faces |-> st.frames_with_faces,
                      frames_with_poses |-> st.frames_with_poses],
         faces |-> [detection_rate |-> detection_rate(st)],
         emotions |->
            [distribution |->
                 IF total_emotions > 0
                 THEN [i \in 1..Len(emotion_dist) |->
                          <<emotion_dist[i][1],
                            Percent(emotion_dist[i][2], total_emotions)>>]
                 ELSE <<>>,
             dominant |-> IF emotion_dist # <<>> THEN max_by_count(emotion_dist)[1]
                          ELSE "unknown",
             top_5 |-> top_5_emotions],
         activities |-> [distribution |-> st.activities_counter,
                         dominant     |-> get_dominant_activity(st)],
         anomalies |-> [total   |-> Len(st.anomalies),
                        by_type |-> st.anomalies_by_type,
                        details |-> st.anomalies]]

(***************************************************************************)
(* ReportGenerator.generate_text_report.  The report is the list `lines`;  *)
(* a line is the sequence of the pieces of text it is formatted from, a    *)
(* number being the characters of its decimal form.  An anomaly's          *)
(* description and a timeline event are embedded as one piece.             *)
(***************************************************************************)
anomaly_details_limit == 20

timeline_limit == 50

DigitValue(c) == CHOOSE d \in 0..9 : DigitChar(d) = c

\* float(x.rstrip('%')) of a percentage "d...d.dd%", in hundredths
RECURSIVE parse_digits(_, _, _)
parse_digits(chars, i, acc) ==
    IF i > Len(chars) THEN acc
    ELSE IF chars[i] \in {".", "%"} THEN parse_digits(chars, i + 1, acc)
    ELSE parse_digits(chars, i + 1, 10 * acc + DigitValue(chars[i]))

parse_percent(chars) == parse_digits(chars, 1, 0)

translate(translations, key) ==
    IF key \in DOMAIN translations THEN translations[key] ELSE key

emotion_translations ==
    [happy |-> "Feliz", sad |-> "Triste", angry |-> "Raiva", surprise |-> "Surpresa",
     fear |-> "Medo", disgust |-> "Desgosto", neutral |-> "Neutro"]

activity_translations ==
    [standing |-> "Em pe", sitting |-> "Sentado", arms_up |-> "Bracos levantados",
     crouching |-> "Agachado", leaning |-> "Inclinado", walking |-> "Caminhando",
     waving |-> "Acenando", unknown |-> "Desconhecido"]

anomaly_translations ==
    [sudden_movement |-> "Movimentos bruscos", abnormal_pose |-> "Poses anomalas",
     rapid_emotion_change |-> "Mudancas emocionais subitas",
     sustained_extreme_emotion |-> "Emocoes extremas sustentadas"]

\* lines 45-49
header_lines(now) ==
    << <<"================================================================================">>, <<"RELATORIO DE ANALISE DE VIDEO">>, <<"================================================================================">>,
       <<"Gerado em: ">> \o now, <<>> >>

\* lines 52-62
general_lines(summary, video_info) ==
    << <<"--------------------------------------------------------------------------------">>, <<"INFORMACOES GERAIS">>, <<"--------------------------------------------------------------------------------">>,
       <<"Video: ", video_info.path>>,
       <<"Duracao: ">> \o format_timestamp(video_info.duration),
       <<"FPS: ">> \o Digits(video_info.fps) \o <<".", "0", "0">>,
       <<"Resolucao: ">> \o Digits(video_info.width) \o <<"x">> \o Digits(video_info.height),
       <<"Total de frames analisados: ">> \o Digits(summary.general.total_frames),
       <<"Frames com rostos detectados: ">> \o Digits(summary.general.frames_with_faces),
       <<"Frames com poses detectadas: ">> \o Digits(summary.general.frames_with_poses),
       <<>> >>

\* lines 65-70
face_lines(summary) ==
    << <<"--------------------------------------------------------------------------------">>, <<"DETECCAO FACIAL">>, <<"--------------------------------------------------------------------------------">>,
       <<"Frames com rostos detectados: ">> \o Digits(summary.general.frames_with_faces),
       <<"Taxa de deteccao: ">> \o summary.faces.detection_rate,
       <<>> >>

\* line 104: sorted(emotion_dist.items(), key=percentage, reverse=True)
sorted_by_percentage(emotion_dist) ==
    LET keyed == [i \in 1..Len(emotion_dist) |->
                     <<emotion_dist[i], parse_percent(emotion_dist[i][2])>>]
        sorted == sorted_by_count(keyed)
    IN  [i \in 1..Len(sorted) |-> sorted[i][1]]

\* lines 73-110
emotion_lines(summary) ==
    LET emotion_dist == summary.emotions.distribution
        top_emotions == summary.emotions.top_5
        by_pct       == sorted_by_percentage(emotion_dist)
    IN  << <<"--------------------------------------------------------------------------------">>, <<"ANALISE DE EMOCOES">>, <<"--------------------------------------------------------------------------------">> >>
        \o (IF emotion_dist # <<>>
            THEN << <<"TOP 5 EMOCOES DOMINANTES:">> >>
                 \o (IF top_emotions # <<>>
                     THEN [i \in 1..Len(top_emotions) |->
                              <<"  ">> \o Digits(i)
                              \o <<". ", translate(emotion_translations, top_emotions[i][1]), ": ">>
                              \o top_emotions[i][2]]
                     ELSE << <<"  Dados insuficientes">> >>)
                 \o << <<>>, <<"Distribuicao completa de emocoes:">> >>
                 \o [i \in 1..Len(by_pct) |->
                        <<"  * ", translate(emotion_translations, by_pct[i][1]), ": ">>
                        \o by_pct[i][2]]
            ELSE << <<"Nenhuma emocao detectada">> >>)
        \o << <<>> >>

\* lines 113-141
activity_lines(summary) ==
    LET activity_dist == summary.activities.distribution
    IN  << <<"--------------------------------------------------------------------------------">>, <<"ATIVIDADES DETECTADAS">>, <<"--------------------------------------------------------------------------------">> >>
        \o (IF activity_dist # <<>>
            THEN << <<"Atividade principal: ", summary.activities.dominant>>,
                    <<>>, <<"Distribuicao de atividades:">> >>
                 \o [i \in 1..Len(activity_dist) |->
                        <<"  * ", translate(activity_translations, activity_dist[i][1]), ": ">>
                        \o Digits(activity_dist[i][2]) \o <<" deteccoes">>]
            ELSE << <<"Nenhuma atividade detectada">> >>)
        \o << <<>> >>

\* line 172
anomaly_detail_line(i, anomaly) ==
    <<"  ">> \o Digits(i) \o <<". [">> \o format_timestamp(anomaly.timestamp)
    \o <<"] Frame ">> \o Digits(anomaly.frame) \o <<": ", anomaly.description>>

\* lines 144-176
anomaly_lines(summary) ==
    LET by_type == summary.anomalies.by_type
        details == FirstN(summary.anomalies.details, anomaly_details_limit)
    IN  << <<"--------------------------------------------------------------------------------">>, <<"ANOMALIAS DETECTADAS">>, <<"--------------------------------------------------------------------------------">>,
           <<"Total de anomalias: ">> \o Digits(summary.anomalies.total), <<>> >>
        \o (IF by_type # <<>>
            THEN << <<"Anomalias por tipo:">> >>
                 \o [i \in 1..Len(by_type) |->
                        <<"  * ", translate(anomaly_translations, by_type[i][1]), ": ">>
                        \o Digits(by_type[i][2]) \o <<" ocorrencias">>]
                 \o << <<>> >>
                 \o (IF summary.anomalies.details # <<>>
                     THEN << <<"Detalhes das anomalias (primeiras 20):">> >>
                          \o [i \in 1..Len(details) |-> anomaly_detail_line(i, details[i])]
                     ELSE <<>>)
            ELSE << <<"Nenhuma anomalia detectada">> >>)
        \o << <<>> >>

\* line 186
timeline_line(entry) == <<"[">> \o format_timestamp(entry[1]) \o <<"] ", entry[2]>>

\* line 189
truncation_note(timeline) ==
    <<"\n... e mais ">> \o Digits(Len(timeline) - timeline_limit) \o <<" eventos">>

timeline_lines_at_limit(timeline) ==
    IF timeline # <<>>
    THEN << <<"--------------------------------------------------------------------------------">>, <<"LINHA DO TEMPO">>, <<"--------------------------------------------------------------------------------">> >>
         \o [i \in 1..Len(FirstN(timeline, timeline_limit)) |-> timeline_line(timeline[i])]
         \o (IF Len(timeline) >= timeline_limit THEN <<truncation_note(timeline)>> ELSE <<>>)
         \o << <<>> >>
    ELSE <<>>

\* lines 179-191
timeline_lines(timeline) ==
    IF timeline # <<>>
    THEN << <<"--------------------------------------------------------------------------------">>, <<"LINHA DO TEMPO">>, <<"--------------------------------------------------------------------------------">> >>
         \o [i \in 1..Len(FirstN(timeline, timeline_limit)) |-> timeline_line(timeline[i])]
         \o (IF Len(timeline) > timeline_limit THEN <<truncation_note(timeline)>> ELSE <<>>)
         \o << <<>> >>
    ELSE <<>>

\* lines 194-196
footer_lines == << <<"================================================================================">>, <<"FIM DO RELATORIO">>, <<"================================================================================">> >>

\* The list `lines` written to output_path; now is the text of
\* datetime.now().strftime('%d/%m/%Y as %H:%M:%S').
generate_text_report(st, video_info, now) ==
    LET summary == get_summary(st)
    IN  header_lines(now) \o general_lines(summary, video_info) \o face_lines(summary)
        \o emotion_lines(summary) \o activity_lines(summary) \o anomaly_lines(summary)
        \o timeline_lines(st.timeline) \o footer_lines

(***************************************************************************)
(* StatisticsCollector.export_to_json: json.dump writes the summary's keys *)
(* in insertion order, so the text is the list of <<key, value>> in that   *)
(* order, nested the same way.                                             *)
(***************************************************************************)
export_to_json(st) ==
    LET summary == get_summary(st)
    IN  << <<"general", << <<"total_frames", summary.general.total_frames>>,
                           <<"frames_with_faces", summary.general.frames_with_faces>>,
                           <<"frames_with_poses", summary.general.frames_with_poses>> >> >>,
           <<"faces", << <<"detection_rate", summary.faces.detection_rate>> >> >>,
           <<"emotions", << <<"distribution", summary.emotions.distribution>>,
                            <<"dominant", summary.emotions.dominant>>,
                            <<"top_5", summary.emotions.top_5>> >> >>,
           <<"activities", << <<"distribution", summary.activities.distribution>>,
                              <<"dominant", summary.activities.dominant>> >> >>,
           <<"anomalies", << <<"total", summary.anomalies.total>>,
                             <<"by_type", summary.anomalies.by_type>>,
                             <<"details", summary.anomalies.details>> >> >> >>

(***************************************************************************)
(* VideoAnalyzer.process_video after the loop: the reports                 *)
(***************************************************************************)
\* The values datetime.now() can format to.
Clock == {<<"05/11/2026 as 10:00:00">>, <<"05/11/2026 as 10:00:01">>}

\* lines 126-133, for a stream of cur frames at rate frames per second; the
\* duration is in tenths of a second
video_info(cur, rate) ==
    [path |-> "video.mp4", width |-> 640, height |-> 480, fps |-> rate,
     total_frames |-> cur, duration |-> IF rate > 0 THEN (cur * 10) \div rate ELSE 0]

\* The reports with an export that records when it was written.
write_reports_stamped(st, info, now) ==
    [report |-> generate_text_report(st, info, now),
     json   |-> export_to_json(st) \o << <<"generated_at", now>> >>]

\* lines 252-253
write_reports(st, info, now) ==
    [report |-> generate_text_report(st, info, now), json |-> export_to_json(st)]

(***************************************************************************)
(* Initial values shared by the specifications                             *)
(***************************************************************************)
NoDedup == faces = <<>> /\ unique_faces = <<>> /\ kept = <<>>

NewDetectors ==
    pose_history = <<>> /\ movement_speeds = <<>> /\ emotion_history = EmptyDict

\* Neither output file exists yet.
NoFiles == [report |-> <<>>, json |-> <<>>]

NoVideo ==
    /\ stats_collector = NewStatisticsCollector
    /\ fps = 10 /\ current_frame = 0 /\ frame = NoFrame
    /\ files = NoFiles /\ analyzers = <<>>

dedup_vars == <<faces, unique_faces, kept>>

video_vars == <<stats_collector, fps, current_frame, frame, files, analyzers>>

(***************************************************************************)
(* SpecDedup: _remove_duplicates applied to every list of up to MaxFaces   *)
(* boxes.                                                                  *)
(***************************************************************************)
InitDedup ==
    /\ faces \in SeqsUpTo(Boxes, MaxFaces)
    /\ unique_faces = <<>> /\ kept = <<>>
    /\ NewDetectors /\ NoVideo
    /\ ret = NoRet /\ calls = 0 /\ pc = "input"

RemoveDuplicates ==
    /\ pc = "input"
    /\ unique_faces' = remove_duplicates(faces)
    /\ kept' = kept_positions(faces)
    /\ pc' = "done"
    /\ UNCHANGED <<faces, pose_history, movement_speeds, emotion_history,
                   video_vars, ret, calls>>

NextDedup == RemoveDuplicates

SpecDedup == InitDedup /\ [][NextDedup]_vars

(***************************************************************************)
(* SpecClassify: up to MaxCalls calls of classify_activity on one          *)
(* ActivityDetector, each with any pose of Poses or without landmarks.     *)
(***************************************************************************)
InitClassify ==
    /\ NoDedup /\ NewDetectors /\ NoVideo
    /\ ret = NoRet /\ calls = 0 /\ pc = "classify"

ClassifyActivity ==
    /\ pc = "classify"
    /\ calls < MaxCalls
    /\ \E landmarks \in Poses \cup {NoPose} :
          LET r == classify_activity(landmarks, pose_history)
          IN  /\ pose_history' = r.pose_history
              /\ ret' = [op |-> "classify_activity", timestamp |-> ret.timestamp,
                         landmarks |-> landmarks, before |-> pose_history,
                         value |-> r.activity]
    /\ calls' = calls + 1
    /\ UNCHANGED <<dedup_vars, movement_speeds, emotion_history, video_vars, pc>>

NextClassify == ClassifyActivity

SpecClassify == InitClassify /\ [][NextClassify]_vars

(***************************************************************************)
(* SpecSudden: up to MaxSamples calls of detect_sudden_movement on one     *)
(* AnomalyDetector, with reset() at any point.                             *)
(***************************************************************************)
Speeds == {0, 1, 2}

InitSudden ==
    /\ NoDedup /\ NewDetectors /\ NoVideo
    /\ ret = NoRet /\ calls = 0 /\ pc = "sudden"

DetectSuddenMovement ==
    /\ pc = "sudden"
    /\ calls < MaxSamples
    /\ \E movement_speed \in Speeds :
          LET r == detect_sudden_movement(movement_speed, movement_speeds)
          IN  /\ movement_speeds' = r.movement_speeds
              /\ ret' = [op |-> "detect_sudden_movement", timestamp |-> ret.timestamp,
                         movement_speed |-> movement_speed, value |-> r.value]
    /\ calls' = calls + 1
    /\ UNCHANGED <<dedup_vars, pose_history, emotion_history, video_vars, pc>>

\* AnomalyDetector.reset
Reset ==
    /\ pc \in {"sudden", "emotion"}
    /\ movement_speeds # <<>> \/ emotion_history # EmptyDict
    /\ movement_speeds' = <<>>
    /\ emotion_history' = EmptyDict
    /\ ret' = [op |-> "reset", timestamp |-> ret.timestamp, value |-> FALSE]
    /\ UNCHANGED <<dedup_vars, pose_history, video_vars, calls, pc>>

NextSudden == DetectSuddenMovement \/ Reset

SpecSudden == InitSudden /\ [][NextSudden]_vars

(***************************************************************************)
(* SpecEmotion: up to MaxObs calls of detect_rapid_emotion_change and      *)
(* detect_extreme_emotion_sustained on one AnomalyDetector, with           *)
(* non-decreasing timestamps.                                              *)
(***************************************************************************)
TimeSteps == {0, 25}

Labels == {"happy", "angry", "fear"}

InitEmotion ==
    /\ NoDedup /\ NewDetectors /\ NoVideo
    /\ ret = NoRet /\ calls = 0 /\ pc = "emotion"

DetectRapidEmotionChange ==
    /\ pc = "emotion"
    /\ calls < MaxObs
    /\ \E dt \in TimeSteps, emotion \in Labels :
          LET timestamp == ret.timestamp + dt
              r == detect_rapid_emotion_change(timestamp, emotion, emotion_history)
          IN  /\ emotion_history' = r.emotion_history
              /\ ret' = [op |-> "detect_rapid_emotion_change",
                         timestamp |-> timestamp, emotion |-> emotion,
                         value |-> r.value]
    /\ calls' = calls + 1
    /\ UNCHANGED <<dedup_vars, pose_history, movement_speeds, video_vars, pc>>

DetectExtremeEmotionSustained ==
    /\ pc = "emotion"
    /\ calls < MaxObs
    /\ \E dt \in TimeSteps, emotion \in Labels :
          LET timestamp == ret.timestamp + dt
          IN  ret' = [op |-> "detect_extreme_emotion_sustained",
                      timestamp |-> timestamp, emotion |-> emotion,
                      value |-> detect_extreme_emotion_sustained(emotion, timestamp,
                                                                 emotion_history)]
    /\ calls' = calls + 1
    /\ UNCHANGED <<dedup_vars, pose_history, movement_speeds, emotion_history,
                   video_vars, pc>>

NextEmotion == DetectRapidEmotionChange \/ DetectExtremeEmotionSustained \/ Reset

SpecEmotion == InitEmotion /\ [][NextEmotion]_vars

(***************************************************************************)
(* SpecPipeline: process_video on a stream of up to MaxFrames frames, the  *)
(* perception outputs of each frame (faces, emotion results, pose) drawn   *)
(* freely.                                                                 *)
(***************************************************************************)
Stand(hx) == MkPose(100, 120, 120, 130, 130, 60, 100, hx)

PipelinePoses == {NoPose, Stand(80), Stand(90)}

Outcomes == {"happy", "angry", "no_result", "error"}

FaceKeys(n) == [i \in 1..n |-> <<"face", i - 1>>]

FrameRates == {1}

InitPipeline ==
    /\ NoDedup /\ NewDetectors
    /\ stats_collector = NewStatisticsCollector
    /\ fps \in FrameRates /\ current_frame = 0 /\ frame = NoFrame
    /\ files = NoFiles /\ analyzers = <<>>
    /\ ret = NoRet /\ calls = 0 /\ pc = "running"

\* One iteration of the loop of lines 139-240 on the given perception outputs.
Iterate(tracked_faces, outcomes, pose) ==
    LET r == process_frame(stats_collector, pose_history, movement_speeds,
                           emotion_history, frame.frame_number + 1,
                           get_timestamp(current_frame + 1, fps),
                           tracked_faces, outcomes, pose)
    IN  /\ current_frame' = current_frame + 1
        /\ stats_collector' = r.stats_collector
        /\ pose_history' = r.pose_history
        /\ movement_speeds' = r.movement_speeds
        /\ emotion_history' = r.emotion_history
        /\ frame' = r.frame
        /\ UNCHANGED <<dedup_vars, fps, ret, calls, pc, files, analyzers>>

ProcessFrame ==
    /\ pc = "running"
    /\ current_frame < MaxFrames
    /\ \E n \in 0..MaxFacesPerFrame : \E outcomes \in [1..n -> Outcomes] :
          \E pose \in PipelinePoses : Iterate(FaceKeys(n), outcomes, pose)

\* read_frame returns ret = False: the loop breaks and lines 252-253 write the
\* report and the export
EndOfStream ==
    /\ pc = "running"
    /\ pc' = "done"
    /\ \E now \in Clock :
          files' = write_reports(stats_collector, video_info(current_frame, fps), now)
    /\ UNCHANGED <<dedup_vars, pose_history, movement_speeds, emotion_history,
                   stats_collector, fps, current_frame, frame, analyzers, ret, calls>>

NextPipeline == ProcessFrame \/ EndOfStream

SpecPipeline == InitPipeline /\ [][NextPipeline]_vars

(***************************************************************************)
(* SpecWalk: the 40-frame stream at 10 fps: 15 frames with a pose of       *)
(* constant hip-x, 10 frames whose hip-x grows by 0.05 (10 units) per      *)
(* frame, 15 frames without pose.  The first hip-x, the joints that decide *)
(* no rule, and whether frame 16 already carries the first increment are   *)
(* free.  No frame has a face.                                             *)
(***************************************************************************)
Scenario == [still |-> 15, moving |-> 10, empty |-> 15, step |-> 10]

\* Poses at hip-x hx that match no rule from arms_up to leaning.
WalkPoses(hx) ==
    {p \in {MkPose(rs, 120, 120, lw, 130, 60, 100, hx) :
                rs \in {100, 108}, lw \in {110, 130}} :
        ~arms_up(p) /\ ~waving(p) /\ ~crouching(p) /\ ~sitting(p) /\ ~leaning(p)}

ScenarioPoses(n) ==
    IF n = 1 THEN UNION {WalkPoses(hx) : hx \in {80, 84}}
    ELSE IF n <= Scenario.still THEN WalkPoses(frame.pose.left_hip.x)
    ELSE IF n = Scenario.still + 1
         THEN WalkPoses(frame.pose.left_hip.x) \cup
              WalkPoses(frame.pose.left_hip.x + Scenario.step)
    ELSE IF n <= Scenario.still + Scenario.moving
         THEN WalkPoses(frame.pose.left_hip.x + Scenario.step)
    ELSE {NoPose}

InitWalk ==
    /\ NoDedup /\ NewDetectors
    /\ stats_collector = NewStatisticsCollector
    /\ fps = 10 /\ current_frame = 0 /\ frame = NoFrame
    /\ files = NoFiles /\ analyzers = <<>>
    /\ ret = NoRet /\ calls = 0 /\ pc = "running"

ScenarioFrame ==
    /\ pc = "running"
    /\ current_frame < Scenario.still + Scenario.moving + Scenario.empty
    /\ \E pose \in ScenarioPoses(current_frame + 1) : Iterate(<<>>, <<>>, pose)

ScenarioEnd ==
    /\ current_frame = Scenario.still + Scenario.moving + Scenario.empty
    /\ EndOfStream

NextWalk == ScenarioFrame \/ ScenarioEnd

SpecWalk == InitWalk /\ [][NextWalk]_vars

(***************************************************************************)
(* SpecEmotionFeed: analyze_frame_for_anomalies fed one subject's emotions *)
(* [happy]*5 + [angry]*6, one observation per second; the movement speed   *)
(* and the pose arguments of each call are free.                           *)
(***************************************************************************)
EmotionFeed ==
    [i \in 1..5 |-> "happy"] \o [i \in 1..6 |-> "angry"]

InitEmotionFeed ==
    /\ NoDedup /\ NewDetectors /\ NoVideo
    /\ ret = NoRet /\ calls = 0 /\ pc = "feed"

FeedObservation ==
    /\ pc = "feed"
    /\ calls < Len(EmotionFeed)
    /\ \E movement_speed \in {0, 1}, pose \in {NoPose, Stand(80)},
          pose_confidence \in {0, 10} :
          LET k  == calls + 1
              ts == get_timestamp(k, 1)
              an == analyze_frame_for_anomalies(
                        k, ts, movement_speed, pose, pose_confidence,
                        <<(<<"face_0", [emotion |-> EmotionFeed[k], confidence |-> 90,
                                        scores |-> Emotions]>>)>>,
                        movement_speeds, emotion_history)
          IN  /\ movement_speeds' = an.movement_speeds
              /\ emotion_history' = an.emotion_history
              /\ ret' = [op |-> "analyze_frame_for_anomalies", timestamp |-> ts,
                         value |-> an.anomalies]
    /\ calls' = calls + 1
    /\ UNCHANGED <<dedup_vars, pose_history, video_vars, pc>>

NextEmotionFeed == FeedObservation

SpecEmotionFeed == InitEmotionFeed /\ [][NextEmotionFeed]_vars

(***************************************************************************)
(* SpecCollector: up to MaxStatOps calls of the methods of one             *)
(* StatisticsCollector, in any order; the timestamp of a call is its       *)
(* number, in seconds.                                                     *)
(***************************************************************************)
InitCollector ==
    /\ NoDedup /\ NewDetectors /\ NoVideo
    /\ ret = NoRet /\ calls = 0 /\ pc = "collector"

\* One call of a recording method: the collector becomes st.
Record(op, st) ==
    /\ pc = "collector"
    /\ calls < MaxStatOps
    /\ stats_collector' = st
    /\ ret' = [op |-> op, timestamp |-> (calls + 1) * 10, value |-> FALSE]
    /\ calls' = calls + 1
    /\ UNCHANGED <<dedup_vars, pose_history, movement_speeds, emotion_history,
                   fps, current_frame, frame, files, analyzers, pc>>

AddFrame == Record("add_frame", add_frame(stats_collector))

AddFaceDetection ==
    \E num_faces \in {0, 2} :
        Record("add_face_detection",
               add_face_detection(stats_collector, calls + 1, num_faces))

AddEmotion ==
    \E emotion \in {"happy", "angry"} :
        Record("add_emotion", add_emotion(stats_collector, (calls + 1) * 10, emotion))

AddActivity ==
    \E activity \in {"standing", "walking"} :
        Record("add_activity",
               add_activity(stats_collector, (calls + 1) * 10, "person_1", activity))

AddPoseDetection == Record("add_pose_detection", add_pose_detection(stats_collector))

AddAnomaly ==
    Record("add_anomaly",
           add_anomaly(stats_collector, (calls + 1) * 10, calls + 1, "sudden_movement",
                       <<"Movimento brusco detectado", calls + 1>>))

AddTimelineEvent ==
    Record("add_timeline_event",
           add_timeline_event(stats_collector, (calls + 1) * 10, <<"evento", calls + 1>>))

GetSummary ==
    /\ pc = "collector"
    /\ calls < MaxStatOps
    /\ ret' = [op |-> "get_summary", timestamp |-> (calls + 1) * 10,
               value |-> get_summary(stats_collector)]
    /\ stats_collector' = collector_after_summary(stats_collector)
    /\ calls' = calls + 1
    /\ UNCHANGED <<dedup_vars, pose_history, movement_speeds, emotion_history,
                   fps, current_frame, frame, files, analyzers, pc>>

NextCollector ==
    \/ AddFrame \/ AddFaceDetection \/ AddEmotion \/ AddActivity
    \/ AddPoseDetection \/ AddAnomaly \/ AddTimelineEvent \/ GetSummary

SpecCollector == InitCollector /\ [][NextCollector]_vars

(***************************************************************************)
(* SpecMain: main() running process_video on a stream of up to MaxFrames   *)
(* frames, statement group by statement group.  SIGINT raises              *)
(* KeyboardInterrupt in the main thread between any two bytecodes, so it   *)
(* can arrive at every position of the loop; the face detector and the     *)
(* pose estimator are called outside any try block and may raise.          *)
(* pc is the position: "running" (top of the loop), "faces", "emotions",   *)
(* "pose", "anomalies", "interrupted", "failed" (an exception is           *)
(* propagating), "done" (process_video returned), "exited" (main returned  *)
(* from an except clause).                                                 *)
(***************************************************************************)
LoopPositions == {"running", "faces", "emotions", "pose", "anomalies"}

InitMain ==
    /\ NoDedup /\ NewDetectors
    /\ stats_collector = NewStatisticsCollector
    /\ fps = 1 /\ current_frame = 0 /\ frame = NoFrame
    /\ files = NoFiles /\ analyzers = <<>>
    /\ ret = NoRet /\ calls = 0 /\ pc = "running"

\* lines 140-149: read_frame succeeds
ReadFrame ==
    /\ pc = "running"
    /\ current_frame < MaxFrames
    /\ current_frame' = current_frame + 1
    /\ frame' = [NoFrame EXCEPT !.frame_number = frame.frame_number + 1,
                                !.timestamp = get_timestamp(current_frame + 1, fps)]
    /\ stats_collector' = add_frame(stats_collector)
    /\ pc' = "faces"
    /\ UNCHANGED <<dedup_vars, pose_history, movement_speeds, emotion_history,
                   fps, files, analyzers, ret, calls>>

\* lines 152-156
DetectFaces ==
    /\ pc = "faces"
    /\ \E n \in 0..1 :
          /\ frame' = [frame EXCEPT !.tracked_faces = FaceKeys(n)]
          /\ stats_collector' = add_face_detection(stats_collector, frame.frame_number, n)
    /\ pc' = "emotions"
    /\ UNCHANGED <<dedup_vars, pose_history, movement_speeds, emotion_history,
                   fps, current_frame, files, analyzers, ret, calls>>

\* An exception leaves process_video from position pc.
Raise(exception, origin) ==
    /\ pc' = IF exception = "KeyboardInterrupt" THEN "interrupted" ELSE "failed"
    /\ ret' = [op |-> exception, timestamp |-> frame.timestamp, value |-> origin]
    /\ UNCHANGED <<dedup_vars, pose_history, movement_speeds, emotion_history,
                   video_vars, calls>>

\* line 152: detect_and_track raises
FaceDetectorFails == pc = "faces" /\ Raise("Exception", "detect_and_track")

\* lines 166-174: analyze_emotion catches what the emotion model raises
AnalyzeEmotions ==
    /\ pc = "emotions"
    /\ \E outcomes \in [1..Len(frame.tracked_faces) -> {"happy", "no_result"}] :
          LET emotions_data == IF frame.tracked_faces # <<>>
                               THEN analyze_faces_emotions(frame.tracked_faces, outcomes)
                               ELSE <<>>
          IN  /\ frame' = [frame EXCEPT !.outcomes = outcomes,
                                        !.emotions_data = emotions_data]
              /\ stats_collector' = record_emotions(stats_collector, frame.timestamp,
                                                    emotions_data, 1)
    /\ pc' = "pose"
    /\ UNCHANGED <<dedup_vars, pose_history, movement_speeds, emotion_history,
                   fps, current_frame, files, analyzers, ret, calls>>

\* lines 182-206
DetectPose ==
    /\ pc = "pose"
    /\ \E pose \in {NoPose, Stand(80)} :
          LET dc == detect_and_classify(pose, pose_history)
          IN  /\ pose_history' = dc.pose_history
              /\ stats_collector' = record_pose(stats_collector, pose, frame.timestamp,
                                                dc.activity)
              /\ frame' = [frame EXCEPT
                              !.pose = pose, !.activity = dc.activity,
                              !.movement_speed =
                                  IF pose.detected
                                  THEN calculate_movement_speed(pose, dc.pose_history)
                                  ELSE 0,
                              !.pose_confidence = IF pose.detected THEN 10 ELSE 0]
    /\ pc' = "anomalies"
    /\ UNCHANGED <<dedup_vars, movement_speeds, emotion_history,
                   fps, current_frame, files, analyzers, ret, calls>>

\* line 182: detect_pose raises
PoseEstimatorFails == pc = "pose" /\ Raise("Exception", "detect_and_classify")

\* lines 207-240
DetectAnomalies ==
    /\ pc = "anomalies"
    /\ LET an == analyze_frame_for_anomalies(frame.frame_number, frame.timestamp,
                     frame.movement_speed, frame.pose, frame.pose_confidence,
                     frame.emotions_data, movement_speeds, emotion_history)
       IN  /\ movement_speeds' = an.movement_speeds
           /\ emotion_history' = an.emotion_history
           /\ stats_collector' = record_anomalies(stats_collector, an.anomalies, 1)
           /\ frame' = [frame EXCEPT !.anomalies = an.anomalies]
    /\ pc' = "running"
    /\ UNCHANGED <<dedup_vars, pose_history, fps, current_frame, files, analyzers,
                   ret, calls>>

\* SIGINT while the loop runs
KeyboardInterrupt == pc \in LoopPositions /\ Raise("KeyboardInterrupt", pc)

\* main.py lines 37-42: either except clause prints a message; main returns
HandleException ==
    /\ pc \in {"interrupted", "failed"}
    /\ pc' = "exited"
    /\ UNCHANGED <<dedup_vars, pose_history, movement_speeds, emotion_history,
                   video_vars, ret, calls>>

NextMain ==
    \/ ReadFrame \/ DetectFaces \/ FaceDetectorFails \/ AnalyzeEmotions
    \/ DetectPose \/ PoseEstimatorFails \/ DetectAnomalies \/ EndOfStream
    \/ KeyboardInterrupt \/ HandleException

SpecMain == InitMain /\ [][NextMain]_vars

(***************************************************************************)
(* SpecReport: the reports of one collector.  The collector of a stream of *)
(* three frames first logs up to MaxAnomalies anomalies and MaxTimeline    *)
(* timeline events (pc = "collect"); then generate_text_report and         *)
(* export_to_json run, any number of times, on the collector as it stands  *)
(* (pc = "reported").  ret keeps the files the rendering replaced.         *)
(***************************************************************************)
MaxAnomalies == 21

MaxTimeline == 51

\* The collector after three frames: faces in two of them, three emotion
\* observations, a pose in each frame.
ReportedStream ==
    LET f1 == add_face_detection(add_frame(NewStatisticsCollector), 1, 1)
        e1 == add_emotion(f1, 10, "happy")
        a1 == add_activity(add_pose_detection(e1), 10, "person_1", "standing")
        f2 == add_face_detection(add_frame(a1), 2, 2)
        e2 == add_emotion(add_emotion(f2, 20, "sad"), 20, "happy")
        a2 == add_activity(add_pose_detection(e2), 20, "person_1", "walking")
        f3 == add_face_detection(add_frame(a2), 3, 0)
    IN  add_activity(add_pose_detection(f3), 30, "person_1", "standing")

InitReport ==
    /\ NoDedup /\ NewDetectors
    /\ stats_collector = ReportedStream
    /\ fps = 1 /\ current_frame = 3 /\ frame = NoFrame
    /\ files = NoFiles /\ analyzers = <<>>
    /\ ret = NoRet /\ calls = 0 /\ pc = "collect"

\* add_anomaly: the k-th anomaly of the log, at frame k
LogAnomaly ==
    /\ pc = "collect"
    /\ Len(stats_collector.anomalies) < MaxAnomalies
    /\ LET k == Len(stats_collector.anomalies) + 1
       IN  stats_collector' =
               add_anomaly(stats_collector, k * 3605, k,
                           IF k % 2 = 1 THEN "sudden_movement" ELSE "abnormal_pose",
                           <<"Anomalia", k>>)
    /\ UNCHANGED <<dedup_vars, pose_history, movement_speeds, emotion_history,
                   fps, current_frame, frame, files, analyzers, ret, calls, pc>>

\* add_timeline_event: the k-th entry of the timeline
LogTimelineEvent ==
    /\ pc = "collect"
    /\ Len(stats_collector.timeline) < MaxTimeline
    /\ LET k == Len(stats_collector.timeline) + 1
       IN  stats_collector' = add_timeline_event(stats_collector, k * 50, <<"evento", k>>)
    /\ UNCHANGED <<dedup_vars, pose_history, movement_speeds, emotion_history,
                   fps, current_frame, frame, files, analyzers, ret, calls, pc>>

\* generate_text_report and export_to_json, at one of the clock's readings
GenerateReports ==
    /\ pc \in {"collect", "reported"}
    /\ \E now \in Clock :
          files' = write_reports(stats_collector, video_info(current_frame, fps), now)
    /\ ret' = [op |-> "generate_reports", timestamp |-> 0, value |-> files]
    /\ pc' = "reported"
    /\ UNCHANGED <<dedup_vars, pose_history, movement_speeds, emotion_history,
                   stats_collector, fps, current_frame, frame, analyzers, calls>>

NextReport == LogAnomaly \/ LogTimelineEvent \/ GenerateReports

SpecReport == InitReport /\ [][NextReport]_vars

(***************************************************************************)
(* SpecTimestamp: format_timestamp applied to a number of seconds given in *)
(* tenths: every combination of the hours, minutes, seconds and tenths     *)
(* below.                                                                  *)
(***************************************************************************)
TimestampInputs ==
    {((h * 3600 + m * 60 + s) * 10) + d :
        h \in {0, 1, 23, 99, 100}, m \in {0, 1, 59}, s \in {0, 9, 59}, d \in {0, 5, 9}}

InitTimestamp ==
    /\ NoDedup /\ NewDetectors /\ NoVideo
    /\ ret \in {[op |-> "seconds", timestamp |-> t, value |-> <<>>] : t \in TimestampInputs}
    /\ calls = 0 /\ pc = "timestamp"

FormatTimestamp ==
    /\ pc = "timestamp"
    /\ ret.op = "seconds"
    /\ ret' = [op |-> "format_timestamp", timestamp |-> ret.timestamp,
               value |-> format_timestamp(ret.timestamp)]
    /\ calls' = calls + 1
    /\ UNCHANGED <<dedup_vars, pose_history, movement_speeds, emotion_history,
                   video_vars, pc>>

NextTimestamp == FormatTimestamp

SpecTimestamp == InitTimestamp /\ [][NextTimestamp]_vars

(***************************************************************************)
(* SpecTwoStreams: two VideoAnalyzer instances in one process, their frame *)
(* loops interleaved frame by frame, each on a stream of up to MaxFrames   *)
(* frames.  An instance is a record of the objects __init__ creates for    *)
(* it, its VideoProcessor's counters and the frames it has read (video).   *)
(* Both write their reports to the paths of REPORT_CONFIG, which are       *)
(* module constants: the variable files is what those two paths hold.      *)
(***************************************************************************)
\* The perception outputs a frame of either stream can have.
StreamFrames ==
    {[tracked_faces |-> FaceKeys(0), outcomes |-> <<>>, pose |-> NoPose],
     [tracked_faces |-> FaceKeys(1), outcomes |-> <<"happy">>, pose |-> Stand(80)],
     [tracked_faces |-> FaceKeys(1), outcomes |-> <<"angry">>, pose |-> Stand(90)]}

\* VideoAnalyzer.__init__: every module is a new object
NewVideoAnalyzer ==
    [stats_collector |-> NewStatisticsCollector, pose_history |-> <<>>,
     movement_speeds |-> <<>>, emotion_history |-> EmptyDict,
     fps |-> 1, current_frame |-> 0, frame |-> NoFrame, video |-> <<>>,
     pc |-> "running"]

\* One iteration of the frame loop of analyzer a on the perception outputs f
analyzer_step(a, f) ==
    LET r == process_frame(a.stats_collector, a.pose_history, a.movement_speeds,
                           a.emotion_history, a.frame.frame_number + 1,
                           get_timestamp(a.current_frame + 1, a.fps),
                           f.tracked_faces, f.outcomes, f.pose)
    IN  [a EXCEPT !.stats_collector = r.stats_collector,
                  !.pose_history = r.pose_history,
                  !.movement_speeds = r.movement_speeds,
                  !.emotion_history = r.emotion_history,
                  !.current_frame = @ + 1,
                  !.frame = r.frame,
                  !.video = Append(@, f)]

InitTwoStreams ==
    /\ NoDedup /\ NewDetectors
    /\ stats_collector = NewStatisticsCollector
    /\ fps = 1 /\ current_frame = 0 /\ frame = NoFrame
    /\ files = NoFiles
    /\ analyzers = <<NewVideoAnalyzer, NewVideoAnalyzer>>
    /\ ret = NoRet /\ calls = 0 /\ pc = "streams"

\* One of the analyzers reads and processes its next frame.
StreamProcessFrame ==
    /\ pc = "streams"
    /\ \E i \in DOMAIN analyzers :
          /\ analyzers[i].pc = "running"
          /\ analyzers[i].current_frame < MaxFrames
          /\ \E f \in StreamFrames :
                analyzers' = [analyzers EXCEPT ![i] = analyzer_step(@, f)]
    /\ UNCHANGED <<dedup_vars, pose_history, movement_speeds, emotion_history,
                   stats_collector, fps, current_frame, frame, files, ret, calls, pc>>

\* One of the analyzers reaches the end of its stream and writes its reports
\* (lines 252-253) to REPORT_CONFIG['output_path'] and ['json_output_path'].
StreamEndOfStream ==
    /\ pc = "streams"
    /\ \E i \in DOMAIN analyzers :
          /\ analyzers[i].pc = "running"
          /\ analyzers' = [analyzers EXCEPT ![i].pc = "done"]
          /\ \E now \in Clock :
                files' = write_reports(analyzers[i].stats_collector,
                                       video_info(analyzers[i].current_frame,
                                                  analyzers[i].fps), now)
    /\ UNCHANGED <<dedup_vars, pose_history, movement_speeds, emotion_history,
                   stats_collector, fps, current_frame, frame, ret, calls, pc>>

NextTwoStreams == StreamProcessFrame \/ StreamEndOfStream

SpecTwoStreams == InitTwoStreams /\ [][NextTwoStreams]_vars

(***************************************************************************)
(* SpecCounters: up to MaxLabelOps calls of add_emotion and add_activity   *)
(* on one StatisticsCollector, with get_summary at any point.  The         *)
(* counters compare labels for equality only, so a label not registered    *)
(* before is taken to be the next unused one of a fixed list.              *)
(***************************************************************************)
MaxLabelOps == 7

EmotionOrder == <<"happy", "sad", "angry", "surprise", "fear", "disgust", "neutral">>

ActivityOrder ==
    <<"standing", "walking", "sitting", "arms_up", "waving", "crouching", "leaning">>

\* The labels the next observation can carry: the registered ones and one new.
NextLabels(counter, order) ==
    {counter[i][1] : i \in 1..Len(counter)}
        \cup (IF Len(counter) < Len(order) THEN {order[Len(counter) + 1]} ELSE {})

InitCounters ==
    /\ NoDedup /\ NewDetectors /\ NoVideo
    /\ ret = NoRet /\ calls = 0 /\ pc = "counters"

\* One call of a counting method: the collector becomes st.
Count(op, st) ==
    /\ pc = "counters"
    /\ calls < MaxLabelOps
    /\ stats_collector' = st
    /\ ret' = [op |-> op, timestamp |-> (calls + 1) * 10, value |-> FALSE]
    /\ calls' = calls + 1
    /\ UNCHANGED <<dedup_vars, pose_history, movement_speeds, emotion_history,
                   fps, current_frame, frame, files, analyzers, pc>>

CountEmotion ==
    \E emotion \in NextLabels(stats_collector.emotions_counter, EmotionOrder) :
        Count("add_emotion", add_emotion(stats_collector, (calls + 1) * 10, emotion))

CountActivity ==
    \E activity \in NextLabels(stats_collector.activities_counter, ActivityOrder) :
        Count("add_activity",
              add_activity(stats_collector, (calls + 1) * 10, "person_1", activity))

Summarize ==
    /\ pc = "counters"
    /\ ret.op # "get_summary"
    /\ ret' = [op |-> "get_summary", timestamp |-> ret.timestamp,
               value |-> get_summary(stats_collector)]
    /\ stats_collector' = collector_after_summary(stats_collector)
    /\ UNCHANGED <<dedup_vars, pose_history, movement_speeds, emotion_history,
                   fps, current_frame, frame, files, analyzers, calls, pc>>

NextCounters == CountEmotion \/ CountActivity \/ Summarize

SpecCounters == InitCounters /\ [][NextCounters]_vars

(***************************************************************************)
(* SpecLog: process_video on a stream of up to MaxLogFrames frames whose   *)
(* faces change emotion from frame to frame and within a frame, so that    *)
(* the anomaly log grows by several events, at 1 or 4 frames per second.   *)
(***************************************************************************)
MaxLogFrames == 4

\* The perception outputs a frame of the stream can have.
LogFrames ==
    {[tracked_faces |-> FaceKeys(0), outcomes |-> <<>>, pose |-> NoPose],
     [tracked_faces |-> FaceKeys(1), outcomes |-> <<"happy">>, pose |-> Stand(80)],
     [tracked_faces |-> FaceKeys(1), outcomes |-> <<"angry">>, pose |-> Stand(80)],
     [tracked_faces |-> FaceKeys(2), outcomes |-> <<"angry", "happy">>, pose |-> NoPose]}

InitLog ==
    /\ NoDedup /\ NewDetectors
    /\ stats_collector = NewStatisticsCollector
    /\ fps \in {1, 4} /\ current_frame = 0 /\ frame = NoFrame
    /\ files = NoFiles /\ analyzers = <<>>
    /\ ret = NoRet /\ calls = 0 /\ pc = "running"

ProcessLogFrame ==
    /\ pc = "running"
    /\ current_frame < MaxLogFrames
    /\ \E f \in LogFrames : Iterate(f.tracked_faces, f.outcomes, f.pose)

NextLog == ProcessLogFrame \/ EndOfStream

SpecLog == InitLog /\ [][NextLog]_vars

(***************************************************************************)
(* SpecHistory: up to MaxHistoryCalls calls of classify_activity on one    *)
(* ActivityDetector with upright poses whose hips are at one of three      *)
(* places, so that the history fills up and overflows.                     *)
(***************************************************************************)
MaxHistoryCalls == 12

HistoryPoses == {Stand(80), Stand(84), Stand(90)}

InitHistory ==
    /\ NoDedup /\ NewDetectors /\ NoVideo
    /\ ret = NoRet /\ calls = 0 /\ pc = "history"

ClassifyUpright ==
    /\ pc = "history"
    /\ calls < MaxHistoryCalls
    /\ \E landmarks \in HistoryPoses :
          LET r == classify_activity(landmarks, pose_history)
          IN  /\ pose_history' = r.pose_history
              /\ ret' = [op |-> "classify_activity", timestamp |-> ret.timestamp,
                         landmarks |-> landmarks, before |-> pose_history,
                         value |-> r.activity]
    /\ calls' = calls + 1
    /\ UNCHANGED <<dedup_vars, movement_speeds, emotion_history, video_vars, pc>>

NextHistory == ClassifyUpright

SpecHistory == InitHistory /\ [][NextHistory]_vars

(***************************************************************************)
(* SpecWindow: up to MaxSpeedCalls calls of detect_sudden_movement on one  *)
(* AnomalyDetector, more than the 30 samples the mean is taken over.  The  *)
(* speed is 0 in all but up to MaxMoving of the calls, in which it is 1 or *)
(* 100.                                                                    *)
(***************************************************************************)
MaxSpeedCalls == 31

MaxMoving == 2

WindowSpeeds == {0, 1, 100}

Moving(speeds) == Cardinality({i \in 1..Len(speeds) : speeds[i] # 0})

InitWindow ==
    /\ NoDedup /\ NewDetectors /\ NoVideo
    /\ ret = NoRet /\ calls = 0 /\ pc = "window"

RecordSpeed ==
    /\ pc = "window"
    /\ calls < MaxSpeedCalls
    /\ \E movement_speed \in WindowSpeeds :
          /\ movement_speed = 0 \/ Moving(movement_speeds) < MaxMoving
          /\ LET r == detect_sudden_movement(movement_speed, movement_speeds)
             IN  /\ movement_speeds' = r.movement_speeds
                 /\ ret' = [op |-> "detect_sudden_movement", timestamp |-> ret.timestamp,
                            movement_speed |-> movement_speed, value |-> r.value]
    /\ calls' = calls + 1
    /\ UNCHANGED <<dedup_vars, pose_history, emotion_history, video_vars, pc>>

NextWindow == RecordSpeed

SpecWindow == InitWindow /\ [][NextWindow]_vars

(***************************************************************************)
(* SpecRapid: up to MaxObs calls of detect_rapid_emotion_change on one     *)
(* AnomalyDetector, 0, 1.9 or 2.0 seconds apart, with reset() at any       *)
(* point.  ret keeps the history the call found.                           *)
(***************************************************************************)
RapidSteps == {0, 19, 20}

RapidLabels == {"happy", "angry"}

ObserveEmotion ==
    /\ pc = "emotion"
    /\ calls < MaxObs
    /\ \E dt \in RapidSteps, emotion \in RapidLabels :
          LET timestamp == ret.timestamp + dt
              r == detect_rapid_emotion_change(timestamp, emotion, emotion_history)
          IN  /\ emotion_history' = r.emotion_history
              /\ ret' = [op |-> "detect_rapid_emotion_change",
                         timestamp |-> timestamp, emotion |-> emotion,
                         before |-> general_history(emotion_history),
                         value |-> r.value]
    /\ calls' = calls + 1
    /\ UNCHANGED <<dedup_vars, pose_history, movement_speeds, video_vars, pc>>

NextRapid == ObserveEmotion \/ Reset

SpecRapid == InitEmotion /\ [][NextRapid]_vars

(***************************************************************************)
(* SpecEvents: analyze_frame_for_anomalies called directly, frame after    *)
(* frame, with every argument free.  The first min_speed_samples - 1 calls *)
(* feed a slow speed and nothing else (detect_sudden_movement answers      *)
(* False until 10 samples exist); the MaxEventFrames calls after them      *)
(* draw speed, pose, pose confidence, subjects and time step freely.       *)
(***************************************************************************)
MaxEventFrames == 2

EventSubjects ==
    { <<>>, <<"angry">>, <<"angry", "happy">>, <<"happy", "angry">> }

EventSteps == {1, 50}

\* emotions_data: an insertion-ordered dict {face_i: {'emotion': ...}}
EmotionsData(subjects) ==
    [i \in 1..Len(subjects) |->
        <<FaceKeys(Len(subjects))[i],
          [emotion |-> subjects[i], confidence |-> 90, scores |-> Emotions]>>]

InitEvents ==
    /\ NoDedup /\ NewDetectors /\ NoVideo
    /\ ret = NoRet /\ calls = 0 /\ pc = "events"

AnalyzeFrameForAnomalies ==
    /\ pc = "events"
    /\ calls < min_speed_samples - 1 + MaxEventFrames
    /\ \E movement_speed \in {1, 100}, pose \in {NoPose, Stand(80)},
          pose_confidence \in {3, 10}, subjects \in EventSubjects,
          step \in EventSteps :
          /\ calls < min_speed_samples - 1 =>
                /\ movement_speed = 1 /\ pose = NoPose /\ pose_confidence = 10
                /\ subjects = <<>> /\ step = 1
          /\ pose = NoPose => pose_confidence = 10
          /\ LET k  == calls + 1
                 ts == ret.timestamp + step
                 ed == EmotionsData(subjects)
                 an == analyze_frame_for_anomalies(k, ts, movement_speed, pose,
                                                   pose_confidence, ed,
                                                   movement_speeds, emotion_history)
             IN  /\ movement_speeds' = an.movement_speeds
                 /\ emotion_history' = an.emotion_history
                 /\ ret' = [op |-> "analyze_frame_for_anomalies", timestamp |-> ts,
                            frame_number |-> k, emotions_data |-> ed,
                            value |-> an.anomalies]
    /\ calls' = calls + 1
    /\ UNCHANGED <<dedup_vars, pose_history, video_vars, pc>>

NextEvents == AnalyzeFrameForAnomalies

SpecEvents == InitEvents /\ [][NextEvents]_vars

(***************************************************************************)
(* SpecCentroid: one ActivityDetector on which classify_activity and       *)
(* calculate_movement_speed are called in any order.  ret.recorded is the  *)
(* pose of the last classify_activity call that reached the append of      *)
(* line 145, ret.reference that pose as it was before the call,            *)
(* ret.classified the pose of the latest classify_activity call and        *)
(* ret.previous the pose of the one before it.                             *)
(***************************************************************************)
MaxCentroidOps == 4

\* upright poses whose hip centroids differ in x alone and in x and y, and a
\* pose with both arms raised
CentroidPoses ==
    {NoPose, Stand(80), Stand(84), Stand(90),
     MkPose(100, 120, 120, 130, 130, 56, 100, 83),
     MkPose(100, 90, 90, 80, 80, 60, 100, 90)}

InitCentroid ==
    /\ NoDedup /\ NewDetectors /\ NoVideo
    /\ ret = [op |-> "init", timestamp |-> 0, value |-> FALSE, recorded |-> NoPose,
              classified |-> NoPose]
    /\ calls = 0 /\ pc = "centroid"

ClassifyThenRecord ==
    /\ pc = "centroid"
    /\ calls < MaxCentroidOps
    /\ \E landmarks \in CentroidPoses \ {NoPose} :
          LET r == classify_activity(landmarks, pose_history)
          IN  /\ pose_history' = r.pose_history
              /\ ret' = [op |-> "classify_activity", timestamp |-> 0,
                         landmarks |-> landmarks, before |-> pose_history,
                         recorded |-> IF r.activity = "standing" THEN landmarks
                                      ELSE ret.recorded,
                         reference |-> ret.recorded,
                         classified |-> landmarks, previous |-> ret.classified,
                         value |-> r.activity]
    /\ calls' = calls + 1
    /\ UNCHANGED <<dedup_vars, movement_speeds, emotion_history, video_vars, pc>>

CalculateMovementSpeed ==
    /\ pc = "centroid"
    /\ calls < MaxCentroidOps
    /\ \E landmarks \in CentroidPoses :
          ret' = [op |-> "calculate_movement_speed", timestamp |-> 0,
                  landmarks |-> landmarks, before |-> pose_history,
                  recorded |-> ret.recorded, classified |-> ret.classified,
                  value |-> calculate_movement_speed(landmarks, pose_history)]
    /\ calls' = calls + 1
    /\ UNCHANGED <<dedup_vars, pose_history, movement_speeds, emotion_history,
                   video_vars, pc>>

NextCentroid == ClassifyThenRecord \/ CalculateMovementSpeed

SpecCentroid == InitCentroid /\ [][NextCentroid]_vars

(***************************************************************************)
(* SpecLedger: the calls of SpecCollector with activities of two subjects  *)
(* and anomalies of two types.                                             *)
(***************************************************************************)
LedgerPersons == <<"person_1", "person_2">>

AddActivityOf ==
    \E person_id \in {LedgerPersons[1], LedgerPersons[2]},
       activity \in {"standing", "walking"} :
        Record("add_activity",
               add_activity(stats_collector, (calls + 1) * 10, person_id, activity))

AddAnomalyOfType ==
    \E anomaly_type \in {"sudden_movement", "rapid_emotion_change"} :
        Record("add_anomaly",
               add_anomaly(stats_collector, (calls + 1) * 10, calls + 1, anomaly_type,
                           <<"anomalia", calls + 1>>))

NextLedger ==
    \/ AddFrame \/ AddFaceDetection \/ AddEmotion \/ AddActivityOf
    \/ AddPoseDetection \/ AddAnomalyOfType \/ AddTimelineEvent \/ GetSummary

SpecLedger == InitCollector /\ [][NextLedger]_vars

(***************************************************************************)
(* SpecSnapshot: a caller takes a summary, keeps it, goes on recording and *)
(* may change the summary it holds.  ret.summary is the held summary as    *)
(* the caller reads it, ret.taken its content when get_summary returned.   *)
(***************************************************************************)
MaxSnapshotOps == 4

\* lines 147-170: the summary dict as read while the collector is st.  Its
\* entry 'details' is self.anomalies itself (line 168), the collector's own
\* list object; every other entry is a number, a str, or a dict or list built
\* by the call (dict(...), comprehensions).
summary_seen(summary, st) ==
    [summary EXCEPT !.anomalies.details = st.anomalies]

NoSummary == [op |-> "none", timestamp |-> 0, value |-> FALSE, held |-> FALSE,
              summary |-> <<>>, taken |-> <<>>]

InitSnapshot ==
    /\ NoDedup /\ NewDetectors /\ NoVideo
    /\ ret = NoSummary /\ calls = 0 /\ pc = "snapshot"

\* One step of the holder of ret.summary: the collector becomes st and the
\* held dict summary.
SnapshotStep(op, st, summary) ==
    /\ pc = "snapshot"
    /\ calls < MaxSnapshotOps
    /\ stats_collector' = st
    /\ ret' = [ret EXCEPT !.op = op, !.timestamp = (calls + 1) * 10,
                          !.summary = IF ret.held THEN summary_seen(summary, st) ELSE @]
    /\ calls' = calls + 1
    /\ UNCHANGED <<dedup_vars, pose_history, movement_speeds, emotion_history,
                   fps, current_frame, frame, files, analyzers, pc>>

SnapshotSummary ==
    /\ pc = "snapshot"
    /\ calls < MaxSnapshotOps
    /\ LET summary == get_summary(stats_collector)
       IN  ret' = [op |-> "get_summary", timestamp |-> (calls + 1) * 10,
                   value |-> summary, held |-> TRUE,
                   summary |-> summary, taken |-> summary]
    /\ stats_collector' = collector_after_summary(stats_collector)
    /\ calls' = calls + 1
    /\ UNCHANGED <<dedup_vars, pose_history, movement_speeds, emotion_history,
                   fps, current_frame, frame, files, analyzers, pc>>

RecordFrame == SnapshotStep("add_frame", add_frame(stats_collector), ret.summary)

RecordEmotion ==
    \E emotion \in {"happy", "angry"} :
        SnapshotStep("add_emotion",
                     add_emotion(stats_collector, (calls + 1) * 10, emotion),
                     ret.summary)

RecordAnomaly ==
    SnapshotStep("add_anomaly",
                 add_anomaly(stats_collector, (calls + 1) * 10, calls + 1,
                             "sudden_movement", <<"anomalia", calls + 1>>),
                 ret.summary)

\* The holder changes the summary: summary['general']['total_frames'] = 0 writes
\* into a dict built by get_summary; summary['anomalies']['details'].clear()
\* empties the list object the entry refers to.
ChangeSummary ==
    /\ ret.held
    /\ \/ SnapshotStep("change_summary", stats_collector,
                       [ret.summary EXCEPT !.general.total_frames = 0])
       \/ SnapshotStep("change_summary", [stats_collector EXCEPT !.anomalies = <<>>],
                       ret.summary)

NextSnapshot ==
    \/ SnapshotSummary \/ RecordFrame \/ RecordEmotion \/ RecordAnomaly
    \/ ChangeSummary

SpecSnapshot == InitSnapshot /\ [][NextSnapshot]_vars

(***************************************************************************)
(* SpecLongRun: process_video on a stream long enough for the movement     *)
(* check to have its 10 samples.  The first min_speed_samples - 1 frames   *)
(* show one angry face and a person standing still, one frame per second;  *)
(* each of the MaxFreeFrames frames after them shows no face or one happy  *)
(* or angry face, and no person or a person at one of two places.          *)
(***************************************************************************)
MaxFreeFrames == 2

StillFrame ==
    [tracked_faces |-> FaceKeys(1), outcomes |-> <<"angry">>, pose |-> Stand(80)]

LongRunFrames ==
    {[tracked_faces |-> FaceKeys(Len(outcomes)), outcomes |-> outcomes, pose |-> pose] :
        outcomes \in {<<>>, <<"happy">>, <<"angry">>},
        pose \in {NoPose, Stand(80), Stand(90)}}

ProcessLongRunFrame ==
    /\ pc = "running"
    /\ current_frame < min_speed_samples - 1 + MaxFreeFrames
    /\ \E f \in LongRunFrames :
          /\ current_frame < min_speed_samples - 1 => f = StillFrame
          /\ Iterate(f.tracked_faces, f.outcomes, f.pose)

NextLongRun == ProcessLongRunFrame \/ EndOfStream

SpecLongRun == InitPipeline /\ [][NextLongRun]_vars

(***************************************************************************)
(* SpecSteady: process_video on a stream of up to MaxSteadyFrames frames   *)
(* at 1 or 2 frames per second (an observation every 1.0 s or 0.5 s), each *)
(* showing one face, angry or happy, and no person.                        *)
(***************************************************************************)
MaxSteadyFrames == 12

InitSteady ==
    /\ NoDedup /\ NewDetectors
    /\ stats_collector = NewStatisticsCollector
    /\ fps \in {1, 2} /\ current_frame = 0 /\ frame = NoFrame
    /\ files = NoFiles /\ analyzers = <<>>
    /\ ret = NoRet /\ calls = 0 /\ pc = "running"

ProcessSteadyFrame ==
    /\ pc = "running"
    /\ current_frame < MaxSteadyFrames
    /\ \E emotion \in {"angry", "happy"} : Iterate(FaceKeys(1), <<emotion>>, NoPose)

NextSteady == ProcessSteadyFrame \/ EndOfStream

SpecSteady == InitSteady /\ [][NextSteady]_vars

(***************************************************************************)
(* SpecTwice: _remove_duplicates on any list of up to MaxFaces boxes, then *)
(* on the list it returned.  ret.value keeps the first call's input.       *)
(***************************************************************************)
RemoveDuplicatesAgain ==
    /\ pc = "done"
    /\ faces' = unique_faces
    /\ unique_faces' = remove_duplicates(unique_faces)
    /\ kept' = kept_positions(unique_faces)
    /\ ret' = [op |-> "_remove_duplicates", timestamp |-> 0, value |-> faces]
    /\ pc' = "again"
    /\ UNCHANGED <<pose_history, movement_speeds, emotion_history, video_vars, calls>>

NextTwice == RemoveDuplicates \/ RemoveDuplicatesAgain

SpecTwice == InitDedup /\ [][NextTwice]_vars

(***************************************************************************)
(* Claims about _remove_duplicates (SpecDedup)                             *)
(***************************************************************************)
\* The pixels a box covers, and IoU > 0.3 counted on them.
Cells(b) == {<<i, j>> : i \in b[1]..(b[1] + b[3] - 1), j \in b[2]..(b[2] + b[4] - 1)}

IoUAbove30(a, b) ==
    LET inter == Cardinality(Cells(a) \cap Cells(b))
        un    == Cardinality(Cells(a) \cup Cells(b))
    IN  un > 0 /\ 10 * inter > 3 * un

Retained(i) == \E k \in 1..Len(kept) : kept[k] = i

\* Position i was rejected against a retained region before it.
Suppressed(i) == \E k \in 1..(i - 1) : Retained(k) /\ IoUAbove30(faces[k], faces[i])

\* C1 as stated: of two input regions with IoU > 0.3 the output never holds
\* both, and the one it holds is the earlier one (so never the later one).
C1_Original ==
    pc = "done" =>
        \A i \in 1..Len(faces) : \A j \in (i + 1)..Len(faces) :
            IoUAbove30(faces[i], faces[j]) =>
                /\ ~(Retained(i) /\ Retained(j))
                /\ ~Retained(j)

\* C1 amended: of two input regions with IoU > 0.3 the output never holds both;
\* the earlier one is retained unless it was itself rejected against a region
\* retained before it, and only then can the later one be retained.
C1_Dedup ==
    pc = "done" =>
        /\ unique_faces = [k \in 1..Len(kept) |-> faces[kept[k]]]
        /\ \A i \in 1..Len(faces) : \A j \in (i + 1)..Len(faces) :
              IoUAbove30(faces[i], faces[j]) =>
                  /\ ~(Retained(i) /\ Retained(j))
                  /\ Retained(i) <=> ~Suppressed(i)
                  /\ Retained(j) => Suppressed(i)

C1_Witness ==
    /\ pc = "done"
    /\ \E i \in 1..Len(faces) : \E j \in (i + 1)..Len(faces) :
          IoUAbove30(faces[i], faces[j]) /\ Retained(i) /\ ~Retained(j)
    /\ \E i \in 1..Len(faces) : \E j \in (i + 1)..Len(faces) :
          IoUAbove30(faces[i], faces[j]) /\ ~Retained(i) /\ Retained(j)

(***************************************************************************)
(* Claims about classify_activity (SpecClassify)                           *)
(***************************************************************************)
Classified == ret.op = "classify_activity" /\ ret.landmarks.detected

\* wrist y < mean shoulder y, without the division
WristsAboveShoulderLine(l) ==
    /\ 2 * l.left_wrist.y < l.left_shoulder.y + l.right_shoulder.y
    /\ 2 * l.right_wrist.y < l.left_shoulder.y + l.right_shoulder.y

ElbowsAboveShoulderLine(l) ==
    /\ 2 * l.left_elbow.y < l.left_shoulder.y + l.right_shoulder.y
    /\ 2 * l.right_elbow.y < l.left_shoulder.y + l.right_shoulder.y

\* 2 * |current hip-centroid x - last recorded hip-centroid x|
HipDelta2(l, history) == Abs(l.left_hip.x + l.right_hip.x - 2 * history[Len(history)])

\* C2: a pose with both wrists above the shoulder line is classified arms_up,
\* whatever the other joints and the history.
C2_ArmsUp ==
    (Classified /\ WristsAboveShoulderLine(ret.landmarks)) => ret.value = "arms_up"

C2_Witness ==
    /\ Classified
    /\ WristsAboveShoulderLine(ret.landmarks)
    /\ ~ElbowsAboveShoulderLine(ret.landmarks)
    /\ sitting(ret.landmarks)
    /\ ret.before # <<>>
    /\ ret.value = "arms_up"

\* C3: walking is returned only with a history entry and a hip-x delta > 0.02;
\* when no rule from arms_up to leaning matches and the history is empty or
\* the delta is <= 0.02, standing is returned.
C3_Walking ==
    Classified =>
        /\ ret.value = "walking" =>
              Len(ret.before) >= 1 /\ HipDelta2(ret.landmarks, ret.before) > 8
        /\ ( /\ ~arms_up(ret.landmarks) /\ ~waving(ret.landmarks)
              /\ ~crouching(ret.landmarks) /\ ~sitting(ret.landmarks)
              /\ ~leaning(ret.landmarks)
              /\ (ret.before = <<>> \/ HipDelta2(ret.landmarks, ret.before) <= 8) )
            => ret.value = "standing"

C3_Witness ==
    /\ Classified
    /\ ret.value = "walking"
    /\ Len(ret.before) >= 1
    /\ HipDelta2(ret.landmarks, ret.before) > 8

(***************************************************************************)
(* Claims about detect_sudden_movement (SpecSudden)                        *)
(***************************************************************************)
SuddenCalled == ret.op = "detect_sudden_movement"

\* C5: the flag is never raised while fewer than 10 speed samples (the current
\* one included) have been collected since construction or reset.
C5_WarmUp == (SuddenCalled /\ ret.value) => Len(movement_speeds) >= 10

\* A call below 10 samples whose speed is above 3 times the mean, not flagged.
C5_Witness ==
    /\ SuddenCalled /\ ~ret.value
    /\ Len(movement_speeds) < 10
    /\ SeqSum(movement_speeds) > 0
    /\ ret.movement_speed * Len(movement_speeds) > 3 * SeqSum(movement_speeds)

AllSamplesEqual ==
    /\ Len(movement_speeds) >= 1
    /\ movement_speeds[1] > 0
    /\ \A i \in 1..Len(movement_speeds) : movement_speeds[i] = movement_speeds[1]

\* C6: when every sample collected so far has the same value c > 0, the flag
\* is not raised.
C6_ConstantSpeed == (SuddenCalled /\ AllSamplesEqual) => ~ret.value

C6_Witness ==
    /\ SuddenCalled /\ AllSamplesEqual
    /\ Len(movement_speeds) >= 10
    /\ ~ret.value

(***************************************************************************)
(* Claims about detect_extreme_emotion_sustained (SpecEmotion)             *)
(***************************************************************************)
SustainedCalled == ret.op = "detect_extreme_emotion_sustained"

\* The positions of the unbroken run of `emotion` at the tail of history h.
TailRun(h, emotion) ==
    {i \in 1..Len(h) : \A k \in i..Len(h) : h[k][2] = emotion}

\* current timestamp - earliest timestamp of the run (0 for an empty run)
TailRunSpan(h, emotion, now) ==
    IF TailRun(h, emotion) = {} THEN 0
    ELSE now - (CHOOSE t \in {h[i][1] : i \in TailRun(h, emotion)} :
                    \A i \in TailRun(h, emotion) : t <= h[i][1])

\* C7: the check flags exactly when the emotion is extreme and the unbroken run
\* of that label at the tail of the shared history spans at least 5.0 s.
C7_Sustained ==
    SustainedCalled =>
        ( ret.value <=>
            /\ ret.emotion \in {"angry", "fear", "disgust"}
            /\ TailRunSpan(general_history(emotion_history), ret.emotion,
                           ret.timestamp) >= 50 )

\* A flagged run that started after an observation of another label.
C7_Witness ==
    /\ SustainedCalled /\ ret.value
    /\ LET h == general_history(emotion_history)
       IN  /\ TailRun(h, ret.emotion) # {}
           /\ 1 \notin TailRun(h, ret.emotion)

(***************************************************************************)
(* Claims about the frame loop (SpecPipeline)                              *)
(***************************************************************************)
FrameStep == pc = "running" /\ current_frame' = current_frame + 1

HasEvent(anomalies, type) == \E i \in 1..Len(anomalies) : anomalies[i].type = type

\* C4: a frame without pose is labelled unknown, leaves the classifier history,
\* frames_with_poses and the activity counts and logs as they were, feeds the
\* speed 0 to the anomaly detector and yields no abnormal_pose event.
C4_NoPose ==
    [][ (FrameStep /\ ~frame'.pose.detected) =>
            /\ frame'.activity = "unknown"
            /\ pose_history' = pose_history
            /\ frame'.movement_speed = 0
            /\ movement_speeds' = Append(movement_speeds, 0)
            /\ ~HasEvent(frame'.anomalies, "abnormal_pose")
            /\ ~HasEvent(SubSeq(stats_collector'.anomalies,
                                Len(stats_collector.anomalies) + 1,
                                Len(stats_collector'.anomalies)), "abnormal_pose")
            /\ stats_collector'.frames_with_poses = stats_collector.frames_with_poses
            /\ stats_collector'.activities_counter = stats_collector.activities_counter
            /\ stats_collector'.activities_by_person
                   = stats_collector.activities_by_person ]_vars

\* A frame without pose processed after a frame whose pose was recorded.
C4_Witness ==
    /\ frame.frame_number >= 2
    /\ ~frame.pose.detected
    /\ frame.activity = "unknown"
    /\ pose_history # <<>>
    /\ stats_collector.frames_with_poses >= 1

(***************************************************************************)
(* Claims about the emotion feed (SpecEmotionFeed)                         *)
(***************************************************************************)
EventCount(anomalies, type) ==
    Cardinality({i \in 1..Len(anomalies) : anomalies[i].type = type})

\* C8: the feed [happy]*5 + [angry]*6 at one observation per second yields no
\* sustained_extreme_emotion event on observations 1 to 10 and one on the 11th,
\* the 6th consecutive angry one.
C8_Feed ==
    ret.op = "analyze_frame_for_anomalies" =>
        EventCount(ret.value, "sustained_extreme_emotion")
            = IF calls = 11 THEN 1 ELSE 0

C8_Witness ==
    /\ ret.op = "analyze_frame_for_anomalies"
    /\ calls = 11
    /\ EmotionFeed[calls] = "angry" /\ EmotionFeed[calls - 5] = "angry"
    /\ EmotionFeed[calls - 6] = "happy"
    /\ HasEvent(ret.value, "sustained_extreme_emotion")

(***************************************************************************)
(* Claims about the 40-frame stream (SpecWalk)                             *)
(***************************************************************************)
\* C9: frames 1-15 are labelled standing, frames 17-25 walking, frames 26-40
\* unknown, and frames_with_poses ends at 25.
C9_Scenario ==
    /\ frame.frame_number = current_frame
    /\ (current_frame \in 1..15) => frame.activity = "standing"
    /\ (current_frame \in 17..25) => frame.activity = "walking"
    /\ (current_frame \in 26..40) => frame.activity = "unknown"
    /\ (current_frame >= 25) => stats_collector.frames_with_poses = 25
    /\ (pc = "done") =>
          /\ current_frame = 40
          /\ stats_collector.total_frames = 40
          /\ stats_collector.frames_with_poses = 25
          /\ LET log == stats_collector.activities_by_person["person_1"]
             IN  /\ Len(log) = 25
                 /\ \A n \in 1..15 : log[n][2] = "standing"
                 /\ \A n \in 17..25 : log[n][2] = "walking"

C9_Witness ==
    /\ pc = "done"
    /\ stats_collector.frames_with_poses = 25
    /\ frame.activity = "unknown"
    /\ stats_collector.activities_by_person["person_1"][16][2] = "walking"

\* C10 as stated: at the end of the stream the dominant activity is walking,
\* counted on 15 of the 25 pose frames.
C10_Original ==
    pc = "done" =>
        /\ get_dominant_activity(stats_collector) = "walking"
        /\ counter_get(stats_collector.activities_counter, "walking") = 15

\* C10 amended: at the end of the stream the dominant activity is standing,
\* counted on the 15 frames of constant hip-x (and on frame 16 when it does
\* not carry the first increment); walking is counted on the other 10 or 9.
C10_Dominant ==
    pc = "done" =>
        LET standing == counter_get(stats_collector.activities_counter, "standing")
            walk     == counter_get(stats_collector.activities_counter, "walking")
        IN  /\ get_dominant_activity(stats_collector) = "standing"
            /\ standing \in {15, 16}
            /\ walk = 25 - standing
            /\ standing = 16 <=>
                  stats_collector.activities_by_person["person_1"][16][2] = "standing"

C10_Witness ==
    /\ pc = "done"
    /\ get_dominant_activity(stats_collector) = "standing"
    /\ counter_get(stats_collector.activities_counter, "standing") = 15
    /\ counter_get(stats_collector.activities_counter, "walking") = 10

(***************************************************************************)
(* Claims about get_summary (SpecCollector)                                *)
(***************************************************************************)
SummaryReturned == ret.op = "get_summary"

DivisionError == <<"ZeroDivisionError">>

\* No percentage of the summary is the result of a division by zero.
NoDivisionError(summary) ==
    /\ summary.faces.detection_rate # DivisionError
    /\ \A i \in 1..Len(summary.emotions.distribution) :
          summary.emotions.distribution[i][2] # DivisionError
    /\ \A i \in 1..Len(summary.emotions.top_5) :
          summary.emotions.top_5[i][2] # DivisionError

\* C11: get_summary raises no division error; with zero frames the detection
\* rate is "0%"; with zero emotions the distribution and the top-5 list are
\* empty and the dominant emotion is unknown; with no activity the dominant
\* activity is unknown; with no anomaly the total is 0.
C11_EmptySummary ==
    SummaryReturned =>
        /\ NoDivisionError(ret.value)
        /\ stats_collector.total_frames = 0 =>
              ret.value.faces.detection_rate = <<"0", "%">>
        /\ stats_collector.emotions_counter = <<>> =>
              /\ ret.value.emotions.distribution = <<>>
              /\ ret.value.emotions.top_5 = <<>>
              /\ ret.value.emotions.dominant = "unknown"
        /\ stats_collector.activities_counter = <<>> =>
              ret.value.activities.dominant = "unknown"
        /\ stats_collector.anomalies = <<>> =>
              /\ ret.value.anomalies.total = 0
              /\ ret.value.anomalies.by_type = <<>>
              /\ ret.value.anomalies.details = <<>>

\* get_summary on a collector that has recorded nothing.
C11_Witness ==
    /\ SummaryReturned
    /\ stats_collector = NewStatisticsCollector
    /\ ret.value.general.total_frames = 0
    /\ ret.value.faces.detection_rate = <<"0", "%">>

Interrupted == ret.op = "KeyboardInterrupt"

\* C13: when a run ends after an interruption, the report and the export have
\* been produced from the statistics of the frames processed so far.
C13_Interrupted ==
    (pc = "exited" /\ Interrupted) =>
        /\ files.report # <<>>
        /\ files.json = export_to_json(stats_collector)

\* C14: at whatever point the stream is interrupted, every frame counted has
\* contributed all of its updates: its face count and its speed sample are
\* recorded as well.
C14_WholeFrames ==
    Interrupted =>
        /\ stats_collector.total_frames = Len(stats_collector.face_detections_per_frame)
        /\ stats_collector.total_frames = Len(movement_speeds)

\* C15: a failure of a perception collaborator does not abort the stream: the
\* loop is still running after it.
C15_NeverAborts == ret.op = "Exception" => pc \in LoopPositions

(***************************************************************************)
(* Claims about failed emotion inference (SpecPipeline)                    *)
(***************************************************************************)
NeutralInfo == [emotion |-> "neutral", confidence |-> 0, scores |-> {}]

\* The faces of the last frame whose emotion inference was missing or failed.
FailedFaces ==
    {i \in 1..Len(frame.tracked_faces) : frame.outcomes[i] \in {"no_result", "error"}}

\* C16: a subject whose emotion inference is missing or failed is in the
\* frame's emotion data as neutral with confidence 0 and no scores, and the
\* neutral label is in the emotion statistics and in the history the rapid and
\* sustained checks read.
C16_NeutralFallback ==
    \A i \in FailedFaces :
        /\ \E k \in 1..Len(frame.emotions_data) :
              /\ frame.emotions_data[k][1] = frame.tracked_faces[i]
              /\ frame.emotions_data[k][2] = NeutralInfo
        /\ \E k \in 1..Len(stats_collector.emotions_timeline) :
              stats_collector.emotions_timeline[k] = <<frame.timestamp, "neutral">>
        /\ \E k \in 1..Len(general_history(emotion_history)) :
              general_history(emotion_history)[k] = <<frame.timestamp, "neutral">>


(***************************************************************************)
(* Claims about the reports (SpecReport)                                   *)
(***************************************************************************)
\* The last step rendered the reports over files rendered before, from the same
\* collector and the same stream metadata.
RenderedAgain == ret.op = "generate_reports" /\ ret.value # NoFiles

\* The line of the text report that carries the time of generation
IsGeneratedLine(line) == Len(line) > 0 /\ line[1] = "Gerado em: "

IsDetailLine(line) ==
    /\ Len(line) > 4
    /\ line[1] = "  "
    /\ line[3] = ". [" \/ line[4] = ". ["

\* "[HH:MM:SS] <event>"
IsTimelineLine(line) == Len(line) > 0 /\ line[1] = "["

\* "\n... e mais <n> eventos"
IsTruncationNote(line) == Len(line) > 0 /\ line[1] = "\n... e mais "

\* The number a truncation note gives
NoteCount(line) == parse_digits(SubSeq(line, 2, Len(line) - 1), 1, 0)

\* C18: the text report lists the first 20 anomalies of the log (all of them
\* when there are fewer), in log order, and the first 50 timeline entries (all
\* of them when there are fewer), in log order; with N > 50 timeline entries
\* it has one truncation note, which gives N - 50, and with N <= 50 it has none.
C18_Truncation ==
    pc = "reported" =>
        LET anomalies == stats_collector.anomalies
            timeline  == stats_collector.timeline
            details   == SelectSeq(files.report, IsDetailLine)
            entries   == SelectSeq(files.report, IsTimelineLine)
            notes     == SelectSeq(files.report, IsTruncationNote)
        IN  /\ Len(details) = Min(Len(anomalies), 20)
            /\ \A i \in 1..Len(details) :
                  /\ details[i][Len(details[i])] = anomalies[i].description
                  /\ details[i] = anomaly_detail_line(i, anomalies[i])
            /\ Len(entries) = Min(Len(timeline), 50)
            /\ \A i \in 1..Len(entries) :
                  /\ entries[i][Len(entries[i])] = timeline[i][2]
                  /\ entries[i] = timeline_line(timeline[i])
            /\ IF Len(timeline) > 50
               THEN Len(notes) = 1 /\ NoteCount(notes[1]) = Len(timeline) - 50
               ELSE notes = <<>>

\* A report of 21 anomalies and 51 timeline entries: 20 and 50 are listed and
\* the note says 1.
C18_Witness ==
    /\ pc = "reported"
    /\ Len(stats_collector.anomalies) > 20
    /\ Len(stats_collector.timeline) > 50
    /\ \E i \in 1..Len(files.report) :
          IsTruncationNote(files.report[i]) /\ NoteCount(files.report[i]) >= 1

(***************************************************************************)
(* Claims about format_timestamp (SpecTimestamp)                           *)
(***************************************************************************)
Formatted == ret.op = "format_timestamp"

AllDigits(chars) ==
    \A i \in 1..Len(chars) : chars[i] \in {DigitChar(d) : d \in 0..9}

\* C19: format_timestamp renders s seconds as HH:MM:SS, HH of two digits or
\* more and MM and SS of exactly two, with HH = floor(s / 3600),
\* MM = floor((s mod 3600) / 60) and SS = floor(s mod 60); MM and SS are in
\* 0..59 and the three fields add up to floor(s): nothing is rounded up.
C19_Truncates ==
    Formatted =>
        LET text == ret.value
            n    == Len(text)
            s    == ret.timestamp \div 10
            hh   == SubSeq(text, 1, n - 6)
            mm   == SubSeq(text, n - 4, n - 3)
            ss   == SubSeq(text, n - 1, n)
            HH   == parse_digits(hh, 1, 0)
            MM   == parse_digits(mm, 1, 0)
            SS   == parse_digits(ss, 1, 0)
        IN  /\ n >= 8
            /\ text[n - 5] = ":" /\ text[n - 2] = ":"
            /\ AllDigits(hh) /\ AllDigits(mm) /\ AllDigits(ss)
            /\ Len(hh) = (IF s \div 3600 < 100 THEN 2 ELSE 3)
            /\ HH = s \div 3600
            /\ MM = (s % 3600) \div 60
            /\ SS = s % 60
            /\ MM \in 0..59 /\ SS \in 0..59
            /\ HH * 3600 + MM * 60 + SS = s

\* 1 h 59 min 59.9 s is rendered 01:59:59.
C19_Witness ==
    /\ Formatted
    /\ ret.timestamp = 71999
    /\ ret.value = <<"0", "1", ":", "5", "9", ":", "5", "9">>

(***************************************************************************)
(* Claims about two streams (SpecTwoStreams)                               *)
(***************************************************************************)
\* The analyzer that has processed the frames of video with no other
\* analyzer in the process.
RECURSIVE ProcessedAlone(_, _, _)
ProcessedAlone(video, i, a) ==
    IF i > Len(video) THEN a
    ELSE ProcessedAlone(video, i + 1, analyzer_step(a, video[i]))

\* The classifier history, the anomaly detector's state, the statistics and
\* the labels and anomalies of the last frame of analyzer i are those of its
\* stream processed alone.
StreamIsolated(i) ==
    LET alone == ProcessedAlone(analyzers[i].video, 1, NewVideoAnalyzer)
    IN  analyzers[i] = [alone EXCEPT !.pc = analyzers[i].pc]

StreamsIsolated == \A i \in DOMAIN analyzers : StreamIsolated(i)

\* Once analyzer i has finished, the report and the export are the ones its
\* stream gives when processed alone, whenever they were written.
ReportsOwn(i) ==
    analyzers[i].pc = "done" =>
        LET alone == ProcessedAlone(analyzers[i].video, 1, NewVideoAnalyzer)
            info  == video_info(alone.current_frame, alone.fps)
        IN  /\ files.json = export_to_json(alone.stats_collector)
            /\ \E now \in Clock :
                  files.report = generate_text_report(alone.stats_collector, info, now)

\* C20: under every interleaving of the frames of two analyzers, the history,
\* detector state, statistics, labels and anomalies of each are the same as
\* when its stream is processed alone, and so are the report and the export of
\* each stream that has finished.
C20_Isolated == \A i \in DOMAIN analyzers : StreamIsolated(i) /\ ReportsOwn(i)

(***************************************************************************)
(* Claims about the counters of the summary (SpecCounters)                 *)
(***************************************************************************)
\* Position of a label in a counter: its rank in order of first registration
Registered(counter, label) == CHOOSE i \in 1..Len(counter) : counter[i][1] = label

CountOf(counter, label) == counter[Registered(counter, label)][2]

\* C21: the summary's top-5 list holds min(5, number of distinct labels)
\* distinct emotion labels, none with a smaller count than a label left out,
\* ordered by count descending and, among equal counts, by first registration.
C21_Top5 ==
    SummaryReturned =>
        LET counter == stats_collector.emotions_counter
            top_5   == ret.value.emotions.top_5
            label(i) == top_5[i][1]
            inTop   == {top_5[i][1] : i \in 1..Len(top_5)}
            all     == {counter[i][1] : i \in 1..Len(counter)}
        IN  /\ Len(top_5) = Min(5, Len(counter))
            /\ inTop \subseteq all
            /\ Cardinality(inTop) = Len(top_5)
            /\ \A i, j \in 1..Len(top_5) :
                  i < j =>
                     \/ CountOf(counter, label(i)) > CountOf(counter, label(j))
                     \/ /\ CountOf(counter, label(i)) = CountOf(counter, label(j))
                        /\ Registered(counter, label(i)) < Registered(counter, label(j))
            /\ \A out \in all \ inTop : \A in \in inTop :
                  CountOf(counter, in) >= CountOf(counter, out)

\* Six labels registered, the fourth seen twice: it leads the list, the other
\* listed ones follow in order of registration and the sixth is left out.
C21_Witness ==
    /\ SummaryReturned
    /\ Len(stats_collector.emotions_counter) = 6
    /\ stats_collector.emotions_counter[4][2] = 2
    /\ [i \in 1..5 |-> ret.value.emotions.top_5[i][1]]
          = <<"surprise", "happy", "sad", "angry", "fear">>

\* C22: the dominant activity is a label of maximal count, the first one
\* registered among those of that count, and it is 'unknown' exactly when no
\* activity was recorded.
C22_DominantActivity ==
    SummaryReturned =>
        LET counter  == stats_collector.activities_counter
            dominant == ret.value.activities.dominant
        IN  /\ dominant = get_dominant_activity(stats_collector)
            /\ dominant = "unknown" <=> counter = <<>>
            /\ counter # <<>> =>
                  /\ \E i \in 1..Len(counter) : counter[i][1] = dominant
                  /\ \A i \in 1..Len(counter) :
                        \/ counter[i][2] < CountOf(counter, dominant)
                        \/ /\ counter[i][2] = CountOf(counter, dominant)
                           /\ i >= Registered(counter, dominant)

\* Three labels, the second and third tied at two: the second is dominant.
C22_Witness ==
    /\ SummaryReturned
    /\ Len(stats_collector.activities_counter) = 3
    /\ stats_collector.activities_counter[1][2] = 1
    /\ stats_collector.activities_counter[2][2] = 2
    /\ stats_collector.activities_counter[3][2] = 2
    /\ ret.value.activities.dominant = "walking"

(***************************************************************************)
(* Claims about the anomaly log (SpecLog)                                  *)
(***************************************************************************)
\* C23: a step of the stream leaves the events already in the anomaly log in
\* place and unchanged and only appends to it; the frame's timestamp never
\* decreases; and the frame indices and the timestamps of the logged events
\* are non-decreasing along the log.
C23_AppendOnly ==
    [][LET old == stats_collector.anomalies
           new == stats_collector'.anomalies
       IN  /\ Len(new) >= Len(old)
           /\ \A i \in 1..Len(old) : new[i] = old[i]
           /\ frame'.timestamp >= frame.timestamp
           /\ \A i \in (Len(old) + 1)..Len(new) :
                 new[i].frame = frame'.frame_number
                 /\ new[i].timestamp = frame'.timestamp
           /\ \A i, j \in 1..Len(new) :
                 i < j => /\ new[i].frame <= new[j].frame
                          /\ new[i].timestamp <= new[j].timestamp]_vars

\* A log of events of three different frames, two of them of the same frame.
C23_Witness ==
    LET log == stats_collector.anomalies
    IN  /\ Len(log) >= 4
        /\ log[1].frame < log[2].frame
        /\ log[2].frame < log[3].frame
        /\ log[3].frame = log[4].frame

(***************************************************************************)
(* The algorithm of _remove_duplicates (SpecDedup)                         *)
(***************************************************************************)
\* C24: the call leaves its input list as it was; a candidate is accepted
\* exactly when no region accepted before it has an IoU with it above 0.3;
\* the output is the accepted candidates in input order; and the first
\* candidate is always accepted.
C24_FirstSeenWins ==
    [][(pc = "input" /\ pc' = "done") =>
          LET accepted    == kept'
              Accepted(i) == \E k \in 1..Len(accepted) : accepted[k] = i
          IN  /\ faces' = faces
              /\ \A k \in 1..Len(accepted) : accepted[k] \in 1..Len(faces)
              /\ \A k \in 1..(Len(accepted) - 1) : accepted[k] < accepted[k + 1]
              /\ unique_faces' = [k \in 1..Len(accepted) |-> faces[accepted[k]]]
              /\ \A i \in 1..Len(faces) :
                    Accepted(i) <=>
                       \A j \in 1..(i - 1) :
                          Accepted(j) => ~IoUAbove30(faces[j], faces[i])
              /\ faces # <<>> => Accepted(1)]_vars

\* Three candidates: the second overlaps the first by no more than 0.3 and is
\* accepted, the third is rejected against the second alone.
C24_Witness ==
    /\ pc = "done"
    /\ Len(faces) = 3
    /\ kept = <<1, 2>>
    /\ Cells(faces[1]) \cap Cells(faces[2]) # {}
    /\ ~IoUAbove30(faces[1], faces[3])
    /\ IoUAbove30(faces[2], faces[3])

(***************************************************************************)
(* The rule order and the history of classify_activity (SpecClassify)      *)
(***************************************************************************)
\* The rules on the landmarks themselves, the means taken as sums of the two
\* sides: 0.1 is 20 units and 0.15 is 30, so 40 and 60 on the sums.
ShoulderSum(l) == l.left_shoulder.y + l.right_shoulder.y

HipSum(l) == l.left_hip.y + l.right_hip.y

KneeSum(l) == l.left_knee.y + l.right_knee.y

LeftArmRaised(l) ==
    l.left_wrist.y < l.left_shoulder.y /\ l.left_elbow.y < l.left_shoulder.y

RightArmRaised(l) ==
    l.right_wrist.y < l.right_shoulder.y /\ l.right_elbow.y < l.right_shoulder.y

\* The rules a pose satisfies, by label
Matches(l, history) ==
    [arms_up   |-> ElbowsAboveShoulderLine(l) \/ WristsAboveShoulderLine(l),
     waving    |-> LeftArmRaised(l) # RightArmRaised(l),
     crouching |-> KneeSum(l) > HipSum(l) + 40 /\ HipSum(l) > ShoulderSum(l) + 40,
     sitting   |-> Abs(HipSum(l) - KneeSum(l)) < 60,
     leaning   |-> Abs(ShoulderSum(l) - HipSum(l)) < 60,
     walking   |-> history # <<>> /\ HipDelta2(l, history) > 8]

RuleOrder == <<"arms_up", "waving", "crouching", "sitting", "leaning", "walking">>

\* C25: the label returned for a pose is that of the first rule, in the order
\* arms_up, waving, crouching, sitting, leaning, walking, that the pose
\* satisfies, and standing when it satisfies none.
C25_RuleOrder ==
    Classified =>
        LET matches == Matches(ret.landmarks, ret.before)
            matched == {i \in 1..Len(RuleOrder) : matches[RuleOrder[i]]}
        IN  IF matched = {} THEN ret.value = "standing"
            ELSE \E i \in matched :
                    /\ \A j \in matched : i <= j
                    /\ ret.value = RuleOrder[i]

\* A pose that satisfies the rules of waving, sitting, leaning and walking is
\* labelled waving.
C25_Witness ==
    /\ Classified
    /\ LET matches == Matches(ret.landmarks, ret.before)
       IN  /\ ~matches.arms_up /\ matches.waving /\ ~matches.crouching
           /\ matches.sitting /\ matches.leaning /\ matches.walking
    /\ ret.value = "waving"

\* C26: a classify_activity call with a pose leaves the history with the
\* pose's hip-centroid x appended to what it held before the call (less its
\* oldest entry once it held 10), whichever label is returned.
C26_AppendsEveryCall ==
    Classified =>
        LET appended == Append(ret.before, hip_x(ret.landmarks))
        IN  pose_history = IF Len(appended) > 10 THEN Tail(appended) ELSE appended

(***************************************************************************)
(* The capacity of the classifier history (SpecHistory)                    *)
(***************************************************************************)
\* C27: the classifier history never holds more than 10 entries, and a call
\* that appends to it (one that returns standing, or changes it at all)
\* leaves the entries it held in their order followed by the new one, without
\* the oldest entry when it held 10 already.
C27_HistoryBound ==
    /\ Len(pose_history) <= 10
    /\ (Classified /\ (ret.value = "standing" \/ pose_history # ret.before)) =>
          LET n == Len(ret.before)
          IN  /\ Len(pose_history) = Min(n + 1, 10)
              /\ 2 * pose_history[Len(pose_history)]
                    = ret.landmarks.left_hip.x + ret.landmarks.right_hip.x
              /\ \A i \in 1..(Len(pose_history) - 1) :
                    pose_history[i] = ret.before[IF n = 10 THEN i + 1 ELSE i]

\* An append to a full history whose two oldest entries differ: the oldest is
\* gone and the second oldest is now first.
C27_Witness ==
    /\ Classified
    /\ Len(ret.before) = 10
    /\ ret.before[1] # ret.before[2]
    /\ ret.value = "standing"
    /\ Len(pose_history) = 10
    /\ pose_history[1] = ret.before[2]
    /\ pose_history[10] # ret.before[10]

(***************************************************************************)
(* The window of detect_sudden_movement (SpecWindow)                       *)
(***************************************************************************)
\* C28: with 10 samples or more collected, the current one included,
\* detect_sudden_movement returns True exactly when the sum of the last 30
\* samples (all of them when there are fewer) is positive and the current
\* speed exceeds 3 times their mean; no earlier sample enters the result.
C28_WindowMean ==
    (SuddenCalled /\ Len(movement_speeds) >= 10) =>
        LET n      == Len(movement_speeds)
            size   == IF n > 30 THEN 30 ELSE n
            window == [i \in 1..size |-> movement_speeds[n - size + i]]
            total  == SeqSum(window)
        IN  /\ movement_speeds[n] = ret.movement_speed
            /\ ret.value <=> (total > 0 /\ ret.movement_speed * size > 3 * total)

\* 31 samples: a speed of 100 first, then 29 of 0, then 1.  The mean of the
\* last 30 is 1/30 and the call returns True; with the first sample counted
\* the mean would be 101/31 and the result False.
C28_Witness ==
    /\ SuddenCalled
    /\ Len(movement_speeds) = 31
    /\ movement_speeds[1] = 100
    /\ ret.movement_speed = 1
    /\ Moving(movement_speeds) = 2
    /\ ret.value

\* C29: the anomaly detector never stores more than 30 speed samples nor more
\* than 10 emotion observations.
C29_BoundedBuffers ==
    /\ Len(movement_speeds) <= 30
    /\ Len(general_history(emotion_history)) <= 10

(***************************************************************************)
(* Claims about detect_rapid_emotion_change (SpecRapid)                    *)
(***************************************************************************)
RapidCalled == ret.op = "detect_rapid_emotion_change"

\* C30: detect_rapid_emotion_change appends <<timestamp, emotion>> to the one
\* history kept under 'general', and returns True exactly when the history
\* held an observation before the call, the last of them has another label
\* and is less than 2.0 s older; so never for the first observation and never
\* for a repeated label.
C30_RapidChange ==
    RapidCalled =>
        LET before  == ret.before
            history == general_history(emotion_history)
            current == <<ret.timestamp, ret.emotion>>
        IN  /\ DOMAIN emotion_history = {"general"}
            /\ Len(before) < 10 => history = Append(before, current)
            /\ history[Len(history)] = current
            /\ ret.value <=>
                  /\ before # <<>>
                  /\ before[Len(before)][2] # ret.emotion
                  /\ ret.timestamp - before[Len(before)][1] < 20
            /\ before = <<>> => ~ret.value
            /\ (before # <<>> /\ before[Len(before)][2] = ret.emotion) => ~ret.value

\* A change of label 1.9 s after the preceding observation is flagged, in a
\* history in which a change after exactly 2.0 s was not.
C30_Witness ==
    /\ RapidCalled
    /\ ret.value
    /\ Len(ret.before) >= 2
    /\ ret.timestamp - ret.before[Len(ret.before)][1] = 19
    /\ ret.before[Len(ret.before)][1] - ret.before[Len(ret.before) - 1][1] = 20
    /\ ret.before[Len(ret.before)][2] # ret.before[Len(ret.before) - 1][2]

(***************************************************************************)
(* Claims about the events of one frame (SpecEvents)                       *)
(***************************************************************************)
EmotionEventTypes == {"rapid_emotion_change", "sustained_extreme_emotion"}

\* position of a check in the order of the frame analysis
CheckRank(type) ==
    IF type = "sudden_movement" THEN 0
    ELSE IF type = "abnormal_pose" THEN 1
    ELSE 2

\* the emotion events of the list, in list order
EmotionEvents(anomalies) ==
    SelectSeq(anomalies, LAMBDA e : e.type \in EmotionEventTypes)

\* subject_of assigns each emotion event to a subject of emotions_data such
\* that subjects appear in iteration order and, for one subject, the
\* rapid_emotion_change event comes before the sustained_extreme_emotion event
InSubjectOrder(events, emotions_data, subject_of) ==
    /\ \A i \in 1..Len(events) :
          events[i].description[2] = emotions_data[subject_of[i]][2].emotion
    /\ \A i \in 1..(Len(events) - 1) :
          \/ subject_of[i] < subject_of[i + 1]
          \/ /\ subject_of[i] = subject_of[i + 1]
             /\ events[i].type = "rapid_emotion_change"
             /\ events[i + 1].type = "sustained_extreme_emotion"

\* C31: the events of one frame are ordered: sudden_movement first, then
\* abnormal_pose, then for each subject in the iteration order of the mapping
\* its rapid_emotion_change event followed by its sustained_extreme_emotion
\* event; every event carries the frame number and timestamp of that frame.
C31_EventOrder ==
    ret.op = "analyze_frame_for_anomalies" =>
        LET anomalies == ret.value
            events    == EmotionEvents(anomalies)
        IN  /\ \A i \in 1..Len(anomalies) :
                  /\ anomalies[i].frame = ret.frame_number
                  /\ anomalies[i].timestamp = ret.timestamp
            /\ \A i \in 1..(Len(anomalies) - 1) :
                  /\ CheckRank(anomalies[i].type) <= CheckRank(anomalies[i + 1].type)
                  /\ CheckRank(anomalies[i].type) < 2 =>
                        anomalies[i].type # anomalies[i + 1].type
            /\ \E subject_of \in [1..Len(events) -> 1..Len(ret.emotions_data)] :
                  InSubjectOrder(events, ret.emotions_data, subject_of)

\* a frame with all four kinds of event: a sudden movement, an abnormal pose,
\* a sustained extreme emotion of the first subject and a rapid change of the
\* second
C31_Witness ==
    /\ ret.op = "analyze_frame_for_anomalies"
    /\ Len(ret.emotions_data) = 2
    /\ Len(ret.value) = 4
    /\ ret.value[1].type = "sudden_movement"
    /\ ret.value[2].type = "abnormal_pose"
    /\ ret.value[3].type = "sustained_extreme_emotion"
    /\ ret.value[4].type = "rapid_emotion_change"
    /\ ret.value[4].frame = calls

(***************************************************************************)
(* Claims about calculate_movement_speed (SpecCentroid)                    *)
(***************************************************************************)
\* squared distance between the hip centroids of two poses
CentroidDistance2(a, b) ==
    (hip_x(a) - hip_x(b)) * (hip_x(a) - hip_x(b))
        + (hip_y(a) - hip_y(b)) * (hip_y(a) - hip_y(b))

\* C32: calculate_movement_speed returns 0.0 when no prior sample has been
\* recorded and otherwise the Euclidean distance (here its integer part)
\* between the current hip centroid and the previously recorded centroid; it
\* never modifies the classifier history.
C32_EuclideanSpeed ==
    (ret.op = "calculate_movement_speed" /\ ret.landmarks.detected) =>
        /\ pose_history = ret.before
        /\ ret.before = <<>> => ret.value = 0
        /\ ret.before # <<>> =>
              LET d2 == CentroidDistance2(ret.landmarks, ret.recorded)
              IN  /\ ret.value * ret.value <= d2
                  /\ d2 < (ret.value + 1) * (ret.value + 1)

(***************************************************************************)
(* Claims about the logs and their running counts (SpecLedger)             *)
(***************************************************************************)
\* sum of the counts of a counter
CountSum(counter) == SeqSum([i \in 1..Len(counter) |-> counter[i][2]])

\* total number of entries of the per-subject activity logs
ActivityEntries(st) ==
    SeqSum([i \in 1..Len(LedgerPersons) |->
               IF LedgerPersons[i] \in DOMAIN st.activities_by_person
               THEN Len(st.activities_by_person[LedgerPersons[i]]) ELSE 0])

LogsPaired(st) ==
    /\ Len(st.anomalies) = CountSum(st.anomalies_by_type)
    /\ Len(st.emotions_timeline) = CountSum(st.emotions_counter)
    /\ ActivityEntries(st) = CountSum(st.activities_counter)

\* the count a counter holds for a label, 0 for a label it does not hold
LabelCount(counter, label) ==
    SeqSum([i \in 1..Len(counter) |->
               IF counter[i][1] = label THEN counter[i][2] ELSE 0])

LedgerLabels ==
    {"happy", "angry", "standing", "walking", "sudden_movement", "rapid_emotion_change"}

NoCounterDecreases(before, after) ==
    /\ after.total_frames >= before.total_frames
    /\ after.frames_with_faces >= before.frames_with_faces
    /\ after.frames_with_poses >= before.frames_with_poses
    /\ after.total_faces_count >= before.total_faces_count
    /\ \A label \in LedgerLabels :
          /\ LabelCount(after.emotions_counter, label) >= LabelCount(before.emotions_counter, label)
          /\ LabelCount(after.activities_counter, label) >= LabelCount(before.activities_counter, label)
          /\ LabelCount(after.anomalies_by_type, label) >= LabelCount(before.anomalies_by_type, label)

\* C33: after any sequence of aggregator operations the anomaly log has as many
\* entries as the per-type anomaly counts sum to, the emotion timeline as many
\* as the per-label emotion counts, and the per-subject activity logs together
\* as many as the per-label activity counts; no counter ever decreases.
C33_LogsPaired ==
    [][ /\ LogsPaired(stats_collector')
        /\ NoCounterDecreases(stats_collector, stats_collector') ]_vars

\* both subjects have activity entries and both anomaly types are counted
C33_Witness ==
    /\ DOMAIN stats_collector.activities_by_person = {"person_1", "person_2"}
    /\ Len(stats_collector.anomalies_by_type) = 2
    /\ Len(stats_collector.anomalies) = 2
    /\ ActivityEntries(stats_collector) = 2

(***************************************************************************)
(* Claims about a summary that is kept while recording goes on             *)
(* (SpecSnapshot)                                                          *)
(***************************************************************************)
RecordingOps == {"add_frame", "add_emotion", "add_anomaly"}

\* C34: a summary returned by get_summary is a read-only snapshot: recording
\* further frames, emotions or anomalies changes no field of a summary returned
\* earlier (its anomaly detail list and total included), and changing the
\* returned summary does not change the aggregator.
C34_Snapshot ==
    [][ ret.held =>
          /\ ret'.op \in RecordingOps => ret'.summary = ret.summary
          /\ ret'.op = "change_summary" => stats_collector' = stats_collector ]_vars

(***************************************************************************)
(* Claims about the frames that reach the classifier history               *)
(* (SpecCentroid)                                                          *)
(***************************************************************************)
\* no rule on the posture (arms_up to leaning) matches the pose
Upright(l) ==
    LET matches == Matches(l, <<>>)
    IN  ~(matches.arms_up \/ matches.waving \/ matches.crouching
            \/ matches.sitting \/ matches.leaning)

\* the hip-x of pose a is more than 0.02 (4 units, 8 on the sums) from that
\* of pose b
HipMoved(a, b) ==
    Abs((a.left_hip.x + a.right_hip.x) - (b.left_hip.x + b.right_hip.x)) > 8

\* C35: classify_activity changes the history only on calls that return
\* standing; the walking rule compares the hip-x of the pose with that of the
\* most recent frame classified standing, not with that of the preceding
\* frame, so a subject that moved by more than 0.02 and holds still goes on
\* being classified walking.
C35_StandingOnly ==
    ret.op = "classify_activity" =>
        /\ ret.value # "standing" => pose_history = ret.before
        /\ ret.value = "standing" =>
              /\ pose_history # ret.before
              /\ 2 * pose_history[Len(pose_history)]
                    = ret.landmarks.left_hip.x + ret.landmarks.right_hip.x
        /\ Upright(ret.landmarks) =>
              (ret.value = "walking"
                  <=> /\ ret.reference.detected
                      /\ HipMoved(ret.landmarks, ret.reference))

\* the subject stands where it stood on the preceding frame, away from where
\* it was last classified standing, and is classified walking
C35_Witness ==
    /\ ret.op = "classify_activity"
    /\ ret.value = "walking"
    /\ ret.previous = ret.landmarks
    /\ ret.reference.detected
    /\ HipMoved(ret.landmarks, ret.reference)
    /\ pose_history = ret.before

C37_NoAbnormalPose ==
    /\ frame.pose_confidence = IF frame.pose.detected THEN 10 ELSE 0
    /\ \A i \in 1..Len(stats_collector.anomalies) :
          stats_collector.anomalies[i].type
              \in {"rapid_emotion_change", "sustained_extreme_emotion"}
    /\ \A i \in 1..Len(frame.anomalies) : frame.anomalies[i].type # "abnormal_pose"

\* anomalies of both emotion types have been recorded by the end of a frame
\* without a pose, after frames with one
C37_Witness ==
    /\ HasEvent(stats_collector.anomalies, "rapid_emotion_change")
    /\ HasEvent(stats_collector.anomalies, "sustained_extreme_emotion")
    /\ stats_collector.frames_with_poses > 0
    /\ ~frame.pose.detected /\ frame.frame_number > 0
    /\ frame.pose_confidence = 0

(***************************************************************************)
(* Claims about the reach of the sustained-emotion check (SpecSteady)      *)
(***************************************************************************)
\* C38: the sustained-emotion duration is measured over the at most 10
\* observations retained in the shared emotion history: a frame is flagged
\* only if its timestamp minus that of the oldest retained observation is at
\* least 5.0 s, so with observations every d seconds and 9 * d < 5.0 s no
\* frame is ever flagged, however long the extreme emotion has lasted.
C38_RetainedOnly ==
    LET retained == general_history(emotion_history)
    IN  /\ Len(retained) <= 10
        /\ HasEvent(frame.anomalies, "sustained_extreme_emotion") =>
              frame.timestamp - retained[1][1] >= 50
        /\ 9 * 10 < 50 * fps =>
              ~HasEvent(stats_collector.anomalies, "sustained_extreme_emotion")

\* twelve frames 0.5 s apart, all angry: the emotion has lasted 5.5 s, the ten
\* retained observations span 4.5 s, and nothing has been flagged
C38_Witness ==
    /\ fps = 2
    /\ frame.frame_number = 12
    /\ frame.timestamp = 60
    /\ Len(stats_collector.emotions_timeline) = 12
    /\ \A i \in 1..12 : stats_collector.emotions_timeline[i][2] = "angry"
    /\ stats_collector.emotions_timeline[1][1] = 5
    /\ general_history(emotion_history)[1][1] = 15
    /\ ~HasEvent(stats_collector.anomalies, "sustained_extreme_emotion")

(***************************************************************************)
(* Claims about the aggregator between two frames (SpecMain)               *)
(***************************************************************************)
\* the loop is between two iterations, or has ended by the end of the stream
FrameBoundary == pc \in {"running", "done"}

\* C39: at every frame boundary of the loop frames_with_faces and
\* frames_with_poses are at most total_frames, there is one face-count entry
\* per frame, and the activity counts sum to frames_with_poses: an activity is
\* recorded exactly on the frames that have a pose, so unknown is never
\* counted.
C39_FrameBoundary ==
    FrameBoundary =>
        /\ stats_collector.frames_with_faces <= stats_collector.total_frames
        /\ stats_collector.frames_with_poses <= stats_collector.total_frames
        /\ Len(stats_collector.face_detections_per_frame) = stats_collector.total_frames
        /\ CountSum(stats_collector.activities_counter) = stats_collector.frames_with_poses
        /\ LabelCount(stats_collector.activities_counter, "unknown") = 0

\* after two whole frames, one of them without a face and one without a pose
C39_Witness ==
    /\ pc = "running"
    /\ stats_collector.total_frames = 2
    /\ stats_collector.frames_with_faces = 1
    /\ stats_collector.frames_with_poses = 1
    /\ Len(stats_collector.face_detections_per_frame) = 2
    /\ frame.activity = "unknown"

(***************************************************************************)
(* Claims about _remove_duplicates applied to its own output (SpecTwice)   *)
(***************************************************************************)
\* C40: the deduplicator is idempotent: applied to its own output it returns
\* that output unchanged.
C40_Idempotent ==
    pc = "again" =>
        /\ unique_faces = faces
        /\ kept = [k \in 1..Len(faces) |-> k]

\* the first call dropped a box and returned two or more, the second call
\* returned them all
C40_Witness ==
    /\ pc = "again"
    /\ Len(ret.value) > Len(faces)
    /\ Len(faces) >= 2
    /\ Len(unique_faces) = Len(faces)

=========================================================================
